---- MODULE Spec2Model ----
(***************************************************************************)
(* A model of the scheduling code of UniFlow-BE                            *)
(* (src/src/services/EnhancedSchedulingEngine.js):                         *)
(*   - EnhancedSchedulingEngine and SchedulingEngine, the daily pipeline   *)
(*     (free slots of a day, then sessions allocated goal by goal);        *)
(*   - AutoTaskGenerator, the task-generation variant (free slots between  *)
(*     existing tasks and protected windows, balanced sessions, study      *)
(*     tasks and breaks), updateTasksForLearningGoal and the stores the   *)
(*     generated documents are written to;                                 *)
(*   - the middleware optionalFirebaseAuth / authenticateFirebase          *)
(*     (src/src/middleware/firebaseAuth.js) and the static                 *)
(*     User.createOrUpdateFromFirebase (src/unnamed/part_001).             *)
(* All times are minutes of the day.  Objects that the code compares by    *)
(* identity (the free slots, through Array.indexOf) carry a reference      *)
(* field `ref`; a spread copy {...slot} is a new object with a new         *)
(* reference.                                                              *)
(***************************************************************************)
EXTENDS Integers, Sequences, FiniteSets, TLC

VARIABLES
    \* ---- interval merging as a function of its input (findFreeSlots 1140-1154)
    mpc,                \* "in" | "once" | "twice"
    busyIntervals,      \* the list X handed to the merge
    merged,             \* merge(X)
    remerged,           \* merge(merge(X))
    \* ---- buildBalancedSessions, one loop iteration per step
    bpc,                \* "call" | "loop" | "ret" | "idle"
    bTarget,            \* targetMinutes
    bCount,             \* count
    bClamped,           \* the durations after the clamp, before the loop
    bSessions,          \* sessions (the list being built)
    bSum,               \* sum
    bStep,              \* step
    bIdx,               \* idx
    \* ---- the three free-slot finders as functions of the day's commitments
    fpc,                \* "in" | "out" | "idle"
    fsInput,            \* the fixed commitments (the existing tasks) of the day
    fsFinder,           \* the finder that ran
    fsBlocks,           \* the busy blocks it walked, in the order walked
    fsSlots,            \* the free slots it returned
    \* ---- generateDailySchedule of EnhancedSchedulingEngine / SchedulingEngine
    dpc,                \* "start" | "for" | "while" | "done" | "idle"
    engine,             \* "enhanced" | "basic"
    fixedSchedule,      \* FixedSchedule.getScheduleForDays(userId, [dayOfWeek])
    learningGoals,      \* LearningGoal.getActiveGoalsByPriority(userId)
    freeSlots,          \* the free slots found
    availableSlots,     \* the working pool of the allocator
    generatedSchedule,  \* the sessions emitted so far; at "done", the plan
    goalIdx,            \* the place of `goal` in learningGoals
    remainingMinutes,
    sessionIndex,
    slotsAtGoalStart,   \* history: availableSlots when the goal's loop began
    \* ---- generateTasksFromLearningGoal of AutoTaskGenerator, for one weekday
    tpc,                \* "start" | "plan" | "slots" | "done" | "idle"
    dayTasks,           \* the existing active tasks of the weekday
    dayTargetMinutes,   \* Math.round((learningGoal.targetHoursPerDay || 0) * 60)
    taskFreeSlots,      \* findFreeSlots(dayTasks, dayOfWeek)
    daySessions,        \* buildBalancedSessions(targetMinutes, plannedCount, cfg)
    sortedSlots,        \* allocateSimpleSessions: the slots by start
    slotIdx,            \* the place of `slot` in sortedSlots
    taskSessionIndex,   \* allocateSimpleSessions: sessionIndex
    continuousFocus,
    sessionsSinceMacro,
    generatedTasks,
    \* ---- saveGeneratedSchedule(userId, scheduleItems, targetDate)
    spc,                \* "start" | "deleted" | "done" | "failed" | "stopped" | "idle"
    savedStore,         \* the GeneratedSchedule collection, a set of documents
    saveUserId,         \* userId
    saveDate,           \* the day of targetDate
    scheduleItems,      \* the items of the new plan
    storeBefore,        \* history: the collection when the call began
    \* ---- minutesToTime and timeToMinutes as functions
    cpc,                \* "in" | "string" | "back" | "idle"
    cMinutes,           \* the minutes given to minutesToTime
    cString,            \* minutesToTime(cMinutes)
    cBack,              \* timeToMinutes(cString)
    \* ---- two generateDailySchedule runs for the same (userId, date)
    rpc,                \* run -> "start" | "deleted" | "done" (<<>> when idle)
    raceStore,          \* the GeneratedSchedule collection, each document with its _id
    racePlans,          \* run -> the plan the run computed
    raceOverlap,        \* history: both runs were between their two awaits at once
    \* ---- updateTasksForLearningGoal(userId, learningGoal)
    upc,                \* "start" | "removed" | "done" | "idle"
    taskStore,          \* the Task collection
    currentDayOfWeek,   \* today.getDay(), 0 = Sunday ... 6 = Saturday
    tasksBefore,        \* history: the collection when the call began
    \* ---- optionalFirebaseAuth(req, res, next) for one request
    apc,                \* "start" | "verify" | "verifyAgain" | "create" | "done" | "idle"
    authHeader,         \* req.headers.authorization: "" (none), "Basic x" or "Bearer <token>"
    tokenHasDot,        \* token.includes(".")
    verifyOutcomes,     \* what the first and the second verifyIdToken(token) do: "ok" or an error code
    createOutcome,      \* what User.createOrUpdateFromFirebase does: "ok" | "throws"
    reqUser,            \* req.user: "undefined" | "null" | "user"
    reqUserId,          \* req.userId: "undefined" | "null" | "id"
    nextCalls,          \* the number of calls of next()
    resStatus,          \* the status of the response sent, 0 if none is sent
    \* ---- two calls of User.createOrUpdateFromFirebase for one firebaseUid
    callPc,             \* call -> "findOne" | "save" | "create" | "returned" | "threw" (<<>> when idle)
    users,              \* the User collection, a set of records [firebaseUid, name, loginCount]
    callNames,          \* call -> the displayName of its firebaseUser ("" if none)
    callUser,           \* call -> the document the call holds (NoUser if none)
    loginCountBefore    \* history: the loginCount stored when the calls began (0 if no record)

mergeVars == <<mpc, busyIntervals, merged, remerged>>
balVars   == <<bpc, bTarget, bCount, bClamped, bSessions, bSum, bStep, bIdx>>
fsVars    == <<fpc, fsInput, fsFinder, fsBlocks, fsSlots>>
dailyVars == <<dpc, engine, fixedSchedule, learningGoals, freeSlots,
               availableSlots, generatedSchedule, goalIdx, remainingMinutes,
               sessionIndex, slotsAtGoalStart>>
taskVars  == <<tpc, dayTasks, dayTargetMinutes, taskFreeSlots, daySessions,
               sortedSlots, slotIdx, taskSessionIndex, continuousFocus,
               sessionsSinceMacro, generatedTasks>>
saveVars  == <<spc, savedStore, saveUserId, saveDate, scheduleItems, storeBefore>>
timeVars  == <<cpc, cMinutes, cString, cBack>>
raceVars  == <<rpc, raceStore, racePlans, raceOverlap>>
updVars   == <<upc, taskStore, currentDayOfWeek, tasksBefore>>
authVars  == <<apc, authHeader, tokenHasDot, verifyOutcomes, createOutcome, reqUser, reqUserId, nextCalls, resStatus>>
userVars  == <<callPc, users, callNames, callUser, loginCountBefore>>
vars      == <<mergeVars, balVars, fsVars, dailyVars, taskVars, saveVars,
               timeVars, raceVars, updVars, authVars,
               userVars>>

-----------------------------------------------------------------------------
(* Bounds of the model *)

\* intervals of the merge inputs have their ends in 0..MaxPoint
MaxPoint == 4
\* the merge inputs hold at most MaxIntervals intervals
MaxIntervals == 3
\* buildBalancedSessions is called with count in 0..BalMaxCount
BalMaxCount == 4
\* the finders are handed at most MaxCommitments commitments (existing tasks)
MaxCommitments == 2
\* generateDailySchedule reads at most MaxFixed fixed commitments of the day
MaxFixed == 2
\* and at most MaxGoals active learning goals
MaxGoals == 2
\* a weekday holds at most MaxDayTasks existing active tasks
MaxDayTasks == 2
\* a plan to save holds at most MaxPlanLen items
MaxPlanLen == 2
\* a stored user has logged in at most MaxLoginCount times before the calls
MaxLoginCount == 2

-----------------------------------------------------------------------------
(* Arithmetic and sequences *)

Min2(a, b) == IF a <= b THEN a ELSE b
Max2(a, b) == IF a >= b THEN a ELSE b

RECURSIVE SumSeq(_)
SumSeq(s) == IF s = <<>> THEN 0 ELSE Head(s) + SumSeq(Tail(s))

\* the sequences over S of length at most n
SeqsUpTo(S, n) == UNION {[1..k -> S] : k \in 0..n}

\* s with x put after the last element whose start is <= x.start
\* (s is sorted by start)
InsertByStart(s, x) ==
    LET k == Cardinality({i \in 1..Len(s) : s[i].start <= x.start})
    IN  SubSeq(s, 1, k) \o <<x>> \o SubSeq(s, k + 1, Len(s))

\* Array.prototype.sort((a, b) => a.start - b.start): a stable sort by start
RECURSIVE SortByStart(_)
SortByStart(s) ==
    IF s = <<>> THEN <<>>
    ELSE InsertByStart(SortByStart(SubSeq(s, 1, Len(s) - 1)), s[Len(s)])

-----------------------------------------------------------------------------
(* AutoTaskGenerator.findFreeSlots, lines 1140-1154: merging busy intervals *)

\* the mutant of MergeStep: `<` in place of `<=` leaves touching intervals apart
MergeStepStrict(acc, interval) ==
    IF acc = <<>> THEN <<interval>>
    ELSE LET last == acc[Len(acc)]
         IN  IF interval.start < last.end
             THEN [acc EXCEPT ![Len(acc)].end = Max2(last.end, interval.end)]
             ELSE Append(acc, interval)

\* one iteration of `for (const interval of busyIntervals)`
MergeStep(acc, interval) ==
    IF acc = <<>> THEN <<interval>>
    ELSE LET last == acc[Len(acc)]
         IN  IF interval.start <= last.end
             THEN [acc EXCEPT ![Len(acc)].end = Max2(last.end, interval.end)]
             ELSE Append(acc, interval)

RECURSIVE MergeFold(_, _)
MergeFold(acc, s) ==
    IF s = <<>> THEN acc ELSE MergeFold(MergeStep(acc, Head(s)), Tail(s))

\* busyIntervals.sort(...) followed by the merge loop
MergeIntervals(X) == MergeFold(<<>>, SortByStart(X))

-----------------------------------------------------------------------------
(* AutoTaskGenerator.STUDY_CONFIG, lines 848-864 *)

defaultSessionLength == 45
breakDuration == 10
maxSessionsPerDay == 6
minSessionsPerDay == 1
minSessionLength == 30
maxSessionLength == 90
maxContinuousTime == 120
prepBufferMin == 5
wrapBufferMin == 5
macroBreakMin == 20
macroBreakAfterSessions == 2
protectedWindows == <<[start |-> 12 * 60, end |-> 13 * 60],
                      [start |-> 18 * 60, end |-> 19 * 60]>>

-----------------------------------------------------------------------------
(* AutoTaskGenerator.buildSessions and buildBalancedSessions *)

NewSession(dur, order, count) ==
    [duration |-> dur, order |-> order, needsBreak |-> order - 1 < count - 1,
     breakDuration |-> breakDuration]

\* buildSessions(count, defaultLen, minLen), lines 988-1000
buildSessions(count, defaultLen, minLen) ==
    SelectSeq([i \in 1..count |-> NewSession(defaultLen, i, count)],
              LAMBDA s : s.duration >= minLen)

\* Math.round(targetMinutes / 5) * 5 for an integer targetMinutes >= 0
Round5(t) == ((t + 2) \div 5) * 5

\* the mutant of ClampSession: the lower clamp is forgotten
ClampSessionNoMin(dur) == Min2(maxSessionLength, dur)

\* Math.max(cfg.minSessionLength, Math.min(cfg.maxSessionLength, dur)), line 1042
ClampSession(dur) == Max2(minSessionLength, Min2(maxSessionLength, dur))

\* `if (remainder >= 5) { dur += 5; remainder -= 5; }`, lines 1038-1041
ShareOfRemainder(remainder) == IF remainder >= 5 THEN 5 ELSE 0

\* the loop of lines 1036-1049 from session i on, `remainder` being what is
\* left to hand out
RECURSIVE DistributeFrom(_, _, _, _)

\* the mutant of DistributeFrom: the loop stops one session early
DistributeFromShort(i, count, base, remainder) ==
    IF i >= count THEN <<>>
    ELSE LET add == ShareOfRemainder(remainder)
         IN  <<NewSession(ClampSession(base + add), i, count)>>
             \o DistributeFrom(i + 1, count, base, remainder - add)

DistributeFrom(i, count, base, remainder) ==
    IF i > count THEN <<>>
    ELSE LET add == ShareOfRemainder(remainder)
         IN  <<NewSession(ClampSession(base + add), i, count)>>
             \o DistributeFrom(i + 1, count, base, remainder - add)

\* lines 1033-1049: the sessions before the reconciliation loop
ClampedSessions(targetMinutes, count) ==
    LET base      == (targetMinutes \div (count * 5)) * 5
        remainder == Max2(0, targetMinutes - base * count)
    IN  DistributeFrom(1, count, base, remainder)

Durations(sessions) == [i \in 1..Len(sessions) |-> sessions[i].duration]

\* `const step = sum > targetMinutes ? -5 : 5`, line 1055
StepOf(sum, targetMinutes) == IF sum > targetMinutes THEN -5 ELSE 5

\* the mutant of LoopRuns: the cap on idx is left out
LoopRunsNoCap(sessions, sum, targetMinutes, idx) == sum # targetMinutes

\* the loop condition of line 1057
LoopRuns(sessions, sum, targetMinutes, idx) ==
    sum # targetMinutes /\ idx < Len(sessions) * 10

\* one iteration of the loop of lines 1057-1065: <<sessions, sum>> after it
LoopBody(sessions, sum, step, idx) ==
    LET i    == (idx % Len(sessions)) + 1
        next == sessions[i].duration + step
    IN  IF next >= minSessionLength /\ next <= maxSessionLength
        THEN <<[sessions EXCEPT ![i].duration = next], sum + step>>
        ELSE <<sessions, sum>>

RECURSIVE Reconcile(_, _, _, _, _)
Reconcile(sessions, sum, step, targetMinutes, idx) ==
    IF LoopRuns(sessions, sum, targetMinutes, idx)
    THEN LET r == LoopBody(sessions, sum, step, idx)
         IN  Reconcile(r[1], r[2], step, targetMinutes, idx + 1)
    ELSE sessions

\* buildBalancedSessions(targetMinutes, count, cfg), lines 1005-1069
buildBalancedSessions(targetMinutes, count) ==
    IF targetMinutes <= 0
    THEN buildSessions(Max2(1, IF count = 0 THEN 1 ELSE count),
                       defaultSessionLength, 15)
    ELSE IF count <= 1
    THEN <<[duration |-> Max2(15, Min2(maxSessionLength, Round5(targetMinutes))),
            order |-> 1, needsBreak |-> FALSE, breakDuration |-> breakDuration]>>
    ELSE LET sessions == ClampedSessions(targetMinutes, count)
             sum      == SumSeq(Durations(sessions))
         IN  Reconcile(sessions, sum, StepOf(sum, targetMinutes), targetMinutes, 0)

-----------------------------------------------------------------------------
(* The daily pipeline: free slots of a day                                  *)
(* A fixed commitment is [title, type, startTime, endTime]; a block is a    *)
(* commitment with its buffered start and end; a free slot is              *)
(* [ref, start, end, duration, startTime, beforeActivity, afterActivity],   *)
(* startTime being the Date of `start`, kept as minutes after midnight.     *)
(* "" stands for null and undefined.                                        *)

\* const dayStart = 6 * 60 and const dayEnd = 23 * 60, lines 116-117, 529-530
dayStart == 6 * 60
dayEnd == 23 * 60
\* `gapDuration >= 30`, lines 146, 165, 553, 570
minGap == 30

\* EnhancedSchedulingEngine.BUFFER_CONFIG, lines 12-22
BUFFER_CONFIG ==
    [meal     |-> [before |-> 30, after |-> 45],
     work     |-> [before |-> 15, after |-> 15],
     study    |-> [before |-> 15, after |-> 15],
     personal |-> [before |-> 10, after |-> 10],
     default  |-> [before |-> 15, after |-> 15]]

\* the keywords of getBufferForActivity and scoreSlotForGoalWithContext that
\* a title of the model contains (String.prototype.includes on the titles
\* the model draws; the names of the synthesized meals contain none)
KeywordsIn(title) ==
    CASE title = "work"      -> {"work"}
      [] title = "lunch"     -> {"lunch"}
      [] title = "meal prep" -> {"meal"}
      [] OTHER               -> {}

Includes(title, keyword) == keyword \in KeywordsIn(title)

\* getBufferForActivity(activity), lines 183-200
getBufferForActivity(activity) ==
    IF \E k \in {"an", "meal", "lunch", "dinner", "breakfast", "com"} :
           Includes(activity.title, k)
    THEN BUFFER_CONFIG.meal
    ELSE IF \/ \E k \in {"work", "lam viec", "hoc", "study"} :
                  Includes(activity.title, k)
            \/ activity.type \in {"work", "class"}
    THEN BUFFER_CONFIG.work
    ELSE BUFFER_CONFIG.default

\* the map of lines 120-131
BufferedBlock(item) ==
    LET bufferConfig == getBufferForActivity(item)
    IN  [title |-> item.title,
         type |-> IF item.type = "" THEN "default" ELSE item.type,
         start |-> Max2(0, item.startTime - bufferConfig.before),
         end |-> Min2(1439, item.endTime + bufferConfig.after),
         originalStart |-> item.startTime,
         originalEnd |-> item.endTime]

\* const mealTimes, lines 207-211 (the names are 'Bua sang', 'Bua trua',
\* 'Bua toi' with their Vietnamese diacritics in the code)
mealTimes ==
    <<[name |-> "Bua sang", start |-> 7 * 60,  end |-> 8 * 60],
      [name |-> "Bua trua", start |-> 12 * 60, end |-> 13 * 60],
      [name |-> "Bua toi",  start |-> 18 * 60, end |-> 19 * 60]>>

\* the mutant of hasConflict: the buffered times are compared
hasConflictBuffered(blocks, meal) ==
    \E i \in 1..Len(blocks) :
        blocks[i].start < meal.end /\ blocks[i].end > meal.start

\* `blocks.some(block => ...)`, lines 215-217
hasConflict(blocks, meal) ==
    \E i \in 1..Len(blocks) :
        blocks[i].originalStart < meal.end /\ blocks[i].originalEnd > meal.start

\* the block pushed at lines 220-228
MealBlock(meal) ==
    [title |-> meal.name, type |-> "meal",
     start |-> meal.start - 15, end |-> meal.end + 15,
     originalStart |-> meal.start, originalEnd |-> meal.end]

\* addMealBreaks(blocks, date), lines 205-233
RECURSIVE MealsFrom(_, _)
MealsFrom(blocks, k) ==
    IF k > Len(mealTimes) THEN <<>>
    ELSE (IF hasConflict(blocks, mealTimes[k]) THEN <<>>
          ELSE <<MealBlock(mealTimes[k])>>) \o MealsFrom(blocks, k + 1)

addMealBreaks(blocks) == blocks \o MealsFrom(blocks, 1)

\* findPreviousActivity(blocks, currentBlock), lines 393-402: the title of the
\* first block among those of greatest end that end at or before currentBlock
findPreviousActivity(blocks, currentBlock) ==
    LET previous == {i \in 1..Len(blocks) : blocks[i].end <= currentBlock.start}
    IN  IF previous = {} THEN ""
        ELSE LET closest ==
                   CHOOSE i \in previous :
                       \A j \in previous :
                           \/ blocks[j].end < blocks[i].end
                           \/ (blocks[j].end = blocks[i].end /\ i <= j)
             IN  blocks[closest].title

\* a free slot as pushed at lines 147-156, 166-173, 555-561, 571-577
FreeSlot(from, to, before, after) ==
    [ref |-> 0, start |-> from, end |-> to, duration |-> to - from,
     startTime |-> from, beforeActivity |-> before, afterActivity |-> after]

\* the mutant of AdvanceCursor: the cursor is set to the end of the block
AdvanceCursorToEnd(currentTime, block) == block.end

\* `currentTime = Math.max(currentTime, block.end)`, lines 159 and 564
AdvanceCursor(currentTime, block) == Max2(currentTime, block.end)

\* the loop `for (const block of ...)` of lines 143-160 and 549-565 from
\* block i on: <<currentTime, freeSlots>> after it (acc is freeSlots).  withContext tells the
\* enhanced engine, which records the surrounding activities.
RECURSIVE GapWalk(_, _, _, _, _)
GapWalk(blocks, i, currentTime, acc, withContext) ==
    IF i > Len(blocks) THEN <<currentTime, acc>>
    ELSE LET block == blocks[i]
             found ==
                 IF currentTime < block.start /\ block.start - currentTime >= minGap
                 THEN <<FreeSlot(currentTime, block.start,
                                 IF withContext THEN block.title ELSE "",
                                 IF withContext
                                 THEN findPreviousActivity(blocks, block)
                                 ELSE "")>>
                 ELSE <<>>
         IN  GapWalk(blocks, i + 1, AdvanceCursor(currentTime, block),
                     acc \o found, withContext)

\* the final slot, lines 163-175 and 568-579
FinalSlot(currentTime, withContext) ==
    IF currentTime < dayEnd /\ dayEnd - currentTime >= minGap
    THEN <<FreeSlot(currentTime, dayEnd,
                    IF withContext THEN "End of day" ELSE "", "")>>
    ELSE <<>>

\* every slot pushed is a new object: its reference is its place in the list
WithRefs(slots) == [i \in 1..Len(slots) |-> [slots[i] EXCEPT !.ref = i]]

SlotsOf(blocks, withContext) ==
    LET walked == GapWalk(blocks, 1, dayStart, <<>>, withContext)
    IN  WithRefs(walked[2] \o FinalSlot(walked[1], withContext))

\* mealsAdded of findIntelligentFreeSlots, lines 120-137: the buffered blocks
\* with the meal breaks, sorted by start
mealsAdded(schedule) ==
    SortByStart(addMealBreaks([i \in 1..Len(schedule) |->
                                  BufferedBlock(schedule[i])]))

\* EnhancedSchedulingEngine.findIntelligentFreeSlots, lines 115-178
findIntelligentFreeSlots(schedule) == SlotsOf(mealsAdded(schedule), TRUE)

\* SchedulingEngine.addBufferTime, lines 589-595
addBufferTime(busyBlocks) ==
    [i \in 1..Len(busyBlocks) |->
        [busyBlocks[i] EXCEPT !.start = Max2(0, @ - 15),
                              !.end = Min2(1439, @ + 15)]]

\* bufferedBlocks of findFreeTimeSlots, lines 533-543: the busy blocks with
\* their buffer, sorted by start
bufferedBlocks(schedule) ==
    SortByStart(addBufferTime([i \in 1..Len(schedule) |->
                                  [start |-> schedule[i].startTime,
                                   end |-> schedule[i].endTime,
                                   title |-> schedule[i].title]]))

\* SchedulingEngine.findFreeTimeSlots, lines 527-582
findFreeTimeSlots(schedule) == SlotsOf(bufferedBlocks(schedule), FALSE)

-----------------------------------------------------------------------------
(* The daily pipeline: allocation                                           *)
(* A goal is [subject, targetMinutes, priority, sessionLength,              *)
(* preferredTimeSlots], targetMinutes being targetHoursPerDay * 60; its _id *)
(* is its place in the list of goals.  A session (schedule item) is         *)
(* [learningGoalId, sessionTopic, sessionOrder, startTime, endTime,         *)
(* duration].                                                               *)

Entry(topic, duration, order) ==
    [topic |-> topic, duration |-> duration, order |-> order]

\* EnhancedSchedulingEngine.LEARNING_TEMPLATES, lines 25-85
LEARNING_TEMPLATES ==
    [javascript |->
        <<Entry("Syntax & Basics", 45, 1), Entry("Functions & Objects", 60, 2),
          Entry("DOM Manipulation", 50, 3), Entry("Async Programming", 70, 4),
          Entry("Practice Projects", 90, 5)>>,
     react |->
        <<Entry("Components & JSX", 45, 1), Entry("State & Props", 60, 2),
          Entry("Hooks", 75, 3), Entry("Routing", 45, 4),
          Entry("State Management", 90, 5)>>,
     python |->
        <<Entry("Syntax & Data Types", 45, 1), Entry("Control Flow", 50, 2),
          Entry("Functions & Modules", 60, 3), Entry("OOP Concepts", 75, 4),
          Entry("Libraries & Projects", 90, 5)>>,
     english |->
        <<Entry("Vocabulary Building", 30, 1), Entry("Grammar Practice", 45, 2),
          Entry("Listening Skills", 40, 3), Entry("Speaking Practice", 50, 4),
          Entry("Writing Exercise", 60, 5)>>,
     ielts |->
        <<Entry("Reading Strategies", 60, 1), Entry("Listening Practice", 45, 2),
          Entry("Writing Task 1", 50, 3), Entry("Writing Task 2", 70, 4),
          Entry("Speaking Mock Test", 40, 5)>>,
     default |->
        <<Entry("Foundation", 45, 1), Entry("Core Concepts", 60, 2),
          Entry("Practice", 50, 3), Entry("Advanced Topics", 75, 4),
          Entry("Application", 90, 5)>>]

\* getContentTemplate(subject), lines 299-315, for a subject already in lower
\* case and without spaces.  The subjects the model draws are keys of the
\* table or strings that neither contain a key nor are contained in one, so
\* the partial match of lines 308-312 succeeds on no other key.
getContentTemplate(subject) ==
    IF subject \in DOMAIN LEARNING_TEMPLATES
    THEN LEARNING_TEMPLATES[subject]
    ELSE LEARNING_TEMPLATES.default

\* getTimeSlotCategory(hour), lines 382-388 and 721-727
getTimeSlotCategory(hour) ==
    IF hour >= 5 /\ hour < 8 THEN "early-morning"
    ELSE IF hour >= 8 /\ hour < 12 THEN "morning"
    ELSE IF hour >= 12 /\ hour < 17 THEN "afternoon"
    ELSE IF hour >= 17 /\ hour < 21 THEN "evening"
    ELSE "night"

\* `priorityBonus[goal.priority] || 0`, lines 354-355 and 710-711
priorityBonus(priority) ==
    CASE priority = "high" -> 30
      [] priority = "medium" -> 20
      [] priority = "low" -> 10
      [] OTHER -> 0

\* scoreSlotForGoal(goal, slot), lines 692-714, times
\* goal.sessionLength.preferred (> 0), which keeps scores integers and their
\* order
scoreSlotForGoal(goal, slot) ==
    LET preferred == goal.sessionLength.preferred
        timeSlot  == getTimeSlotCategory(slot.startTime \div 60)
    IN  Min2(slot.duration, preferred) * 100
        + preferred * (IF timeSlot \in goal.preferredTimeSlots THEN 50 ELSE 0)
        + preferred * priorityBonus(goal.priority)

\* scoreSlotForGoalWithContext(goal, slot), lines 340-368, times
\* goal.sessionLength.preferred
scoreSlotForGoalWithContext(goal, slot) ==
    LET preferred == goal.sessionLength.preferred
    IN  scoreSlotForGoal(goal, slot)
        + preferred * (IF slot.afterActivity # ""
                          /\ Includes(slot.afterActivity, "meal")
                       THEN 20 ELSE 0)
        - preferred * (IF slot.beforeActivity # ""
                          /\ Includes(slot.beforeActivity, "meal")
                       THEN 10 ELSE 0)

\* the reference of an object created by a spread, `{...slot, score}`: that of
\* no element of freeSlots or availableSlots, whose references are 1, 2, ...
NewObjectRef == 0

\* `{...slot, score: ...}`, lines 327-330 and 675-678: a new object with the
\* fields of slot
Spread(slot, score) ==
    [ref |-> NewObjectRef, start |-> slot.start, end |-> slot.end,
     duration |-> slot.duration, startTime |-> slot.startTime,
     beforeActivity |-> slot.beforeActivity,
     afterActivity |-> slot.afterActivity, score |-> score]

\* `scoredSlots.reduce((best, current) => current.score > best.score ? current
\* : best)`, lines 332-334 and 681-683: the first slot of greatest score
RECURSIVE ReduceBest(_, _, _)
ReduceBest(scoredSlots, i, best) ==
    IF i > Len(scoredSlots) THEN best
    ELSE ReduceBest(scoredSlots, i + 1,
                    IF scoredSlots[i].score > best.score
                    THEN scoredSlots[i] ELSE best)

\* what findBestSlotForGoal returns for "null"
NoSlot == [ref |-> -1]

\* the mutant of findBestSlotForGoal: slots shorter than sessionLength.min
\* are not filtered out
findBestSlotForGoalAnySlot(goal, slots, withContext) ==
    LET scoredSlots ==
            [i \in 1..Len(slots) |->
                Spread(slots[i],
                       IF withContext
                       THEN scoreSlotForGoalWithContext(goal, slots[i])
                       ELSE scoreSlotForGoal(goal, slots[i]))]
    IN  IF Len(slots) = 0 THEN NoSlot
        ELSE ReduceBest(scoredSlots, 2, scoredSlots[1])

\* findBestSlotForGoal(goal, availableSlots, remainingMinutes), lines 320-335
\* (withContext) and 666-684
findBestSlotForGoal(goal, slots, withContext) ==
    LET suitableSlots ==
            SelectSeq(slots, LAMBDA slot : slot.duration >= goal.sessionLength.min)
        scoredSlots ==
            [i \in 1..Len(suitableSlots) |->
                Spread(suitableSlots[i],
                       IF withContext
                       THEN scoreSlotForGoalWithContext(goal, suitableSlots[i])
                       ELSE scoreSlotForGoal(goal, suitableSlots[i]))]
    IN  IF Len(suitableSlots) = 0 THEN NoSlot
        ELSE ReduceBest(scoredSlots, 2, scoredSlots[1])

\* availableSlots.indexOf(usedSlot), by identity; 0 stands for -1
IndexOf(slots, usedSlot) ==
    IF \E i \in 1..Len(slots) : slots[i].ref = usedSlot.ref
    THEN CHOOSE i \in 1..Len(slots) :
             /\ slots[i].ref = usedSlot.ref
             /\ \A j \in 1..(i - 1) : slots[j].ref # usedSlot.ref
    ELSE 0

\* availableSlots.splice(index, 1)
Splice(slots, index) ==
    SubSeq(slots, 1, index - 1) \o SubSeq(slots, index + 1, Len(slots))

\* updateAvailableSlot(availableSlots, usedSlot, usedDuration), lines 407-420
\* and 763-780: availableSlots after the call
updateAvailableSlot(slots, usedSlot, usedDuration) ==
    LET index == IndexOf(slots, usedSlot)
        remainingDuration == usedSlot.duration - usedDuration
    IN  IF index = 0 THEN slots
        ELSE IF remainingDuration >= 30
        THEN [slots EXCEPT ![index].duration = remainingDuration,
                           ![index].start = usedSlot.start + usedDuration,
                           ![index].startTime = usedSlot.startTime + usedDuration]
        ELSE Splice(slots, index)

\* the mutant of EnhancedSessionDuration: remainingMinutes is left out
EnhancedSessionDurationNoRemaining(goal, currentSession, remaining, bestSlot) ==
    Min2(Min2(currentSession.duration, bestSlot.duration),
         goal.sessionLength.max)

\* `Math.min(currentSession.duration, remainingMinutes, bestSlot.duration,
\* goal.sessionLength.max)`, lines 255-260
EnhancedSessionDuration(goal, currentSession, remaining, bestSlot) ==
    Min2(Min2(currentSession.duration, remaining),
         Min2(bestSlot.duration, goal.sessionLength.max))

\* the mutant of calculateOptimalSessionDuration: the floor at
\* goal.sessionLength.min is left out
calculateOptimalSessionDurationNoFloor(goal, slotDuration, remaining) ==
    Min2(Min2(Min2(goal.sessionLength.preferred, remaining), slotDuration),
         goal.sessionLength.max)

\* calculateOptimalSessionDuration(goal, slotDuration, remainingMinutes),
\* lines 736-755
calculateOptimalSessionDuration(goal, slotDuration, remaining) ==
    LET d1 == goal.sessionLength.preferred
        d2 == Min2(d1, remaining)
        d3 == Min2(d2, slotDuration)
        d4 == Max2(d3, goal.sessionLength.min)
    IN  Min2(d4, goal.sessionLength.max)

\* the schedule item of lines 263-279 and 632-644
ScheduleItem(goalId, topic, order, bestSlot, sessionDuration) ==
    [learningGoalId |-> goalId, sessionTopic |-> topic, sessionOrder |-> order,
     startTime |-> bestSlot.startTime,
     endTime |-> bestSlot.startTime + sessionDuration,
     duration |-> sessionDuration]

\* s with x put after the last element whose startTime is <= x.startTime
InsertByStartTime(s, x) ==
    LET k == Cardinality({i \in 1..Len(s) : s[i].startTime <= x.startTime})
    IN  SubSeq(s, 1, k) \o <<x>> \o SubSeq(s, k + 1, Len(s))

\* generatedSchedule.sort((a, b) => a.startTime - b.startTime), lines 293, 656
RECURSIVE SortByStartTime(_)
SortByStartTime(s) ==
    IF s = <<>> THEN <<>>
    ELSE InsertByStartTime(SortByStartTime(SubSeq(s, 1, Len(s) - 1)), s[Len(s)])

-----------------------------------------------------------------------------
(* AutoTaskGenerator: "HH:MM" strings, kept as sequences of characters      *)

DigitChars == <<"0", "1", "2", "3", "4", "5", "6", "7", "8", "9">>

\* Number.prototype.toString() of an integer n >= 0
RECURSIVE NumberToString(_)
NumberToString(n) ==
    IF n < 10 THEN <<DigitChars[n + 1]>>
    ELSE NumberToString(n \div 10) \o <<DigitChars[(n % 10) + 1]>>

\* the mutant of PadStart2: nothing is padded
PadStartNothing(str) == str

\* String.prototype.padStart(2, "0")
PadStart2(str) == IF Len(str) < 2 THEN <<"0">> \o str ELSE str

\* minutesToTime(minutes), lines 1400-1406, for minutes >= 0
minutesToTime(minutes) ==
    LET hours == minutes \div 60
        mins  == minutes % 60
    IN  PadStart2(NumberToString(hours)) \o <<":">> \o PadStart2(NumberToString(mins))

\* Number(str) of a string of decimal digits
RECURSIVE StringToNumber(_)
StringToNumber(str) ==
    IF str = <<>> THEN 0
    ELSE LET last == str[Len(str)]
             d    == CHOOSE k \in 0..9 : DigitChars[k + 1] = last
         IN  StringToNumber(SubSeq(str, 1, Len(str) - 1)) * 10 + d

\* timeString.split(":") of a string with one ":"
SplitAtColon(str) ==
    LET c == CHOOSE i \in 1..Len(str) : str[i] = ":"
    IN  <<SubSeq(str, 1, c - 1), SubSeq(str, c + 1, Len(str))>>

\* timeToMinutes(timeString), lines 1392-1395
timeToMinutes(timeString) ==
    LET parts == SplitAtColon(timeString)
    IN  StringToNumber(parts[1]) * 60 + StringToNumber(parts[2])

-----------------------------------------------------------------------------
(* AutoTaskGenerator.findFreeSlots: an existing task is                     *)
(* [timeRange |-> [start |-> "HH:MM", end |-> "HH:MM"]]; a free slot is     *)
(* [start, end, duration]                                                   *)

\* const dayEnd = 22 * 60, line 1138 (dayStart is 6 * 60 as above, line 1137)
taskDayEnd == 22 * 60
\* `duration >= 45`, lines 1163 and 1171
minTaskGap == 45

\* the mutant of BusyIntervalsOf: the tasks are taken without their buffer
BusyIntervalsOfNoBuffer(tasks) ==
    [i \in 1..Len(tasks) |->
        [start |-> timeToMinutes(tasks[i].timeRange.start),
         end   |-> timeToMinutes(tasks[i].timeRange.end)]]
    \o protectedWindows

\* lines 1126-1134: the busy intervals, tasks with their 15-minute buffer and
\* then the protected windows
BusyIntervalsOf(tasks) ==
    [i \in 1..Len(tasks) |->
        [start |-> timeToMinutes(tasks[i].timeRange.start) - 15,
         end   |-> timeToMinutes(tasks[i].timeRange.end) + 15]]
    \o protectedWindows

\* the loop of lines 1159-1168 from merged interval i on
RECURSIVE TaskGapWalk(_, _, _, _)
TaskGapWalk(mergedIntervals, i, currentTime, acc) ==
    IF i > Len(mergedIntervals) THEN <<currentTime, acc>>
    ELSE LET b == mergedIntervals[i]
             found ==
                 IF currentTime < b.start /\ b.start - currentTime >= minTaskGap
                 THEN <<[start |-> currentTime, end |-> b.start,
                         duration |-> b.start - currentTime]>>
                 ELSE <<>>
         IN  TaskGapWalk(mergedIntervals, i + 1, Max2(currentTime, b.end),
                         acc \o found)

\* AutoTaskGenerator.findFreeSlots(dayTasks, dayOfWeek), lines 1124-1176
findFreeSlots(tasks) ==
    LET mergedIntervals == MergeIntervals(BusyIntervalsOf(tasks))
        walked == TaskGapWalk(mergedIntervals, 1, dayStart, <<>>)
        currentTime == walked[1]
    IN  walked[2] \o
        (IF currentTime < taskDayEnd /\ taskDayEnd - currentTime >= minTaskGap
         THEN <<[start |-> currentTime, end |-> taskDayEnd,
                 duration |-> taskDayEnd - currentTime]>>
         ELSE <<>>)

-----------------------------------------------------------------------------
(* AutoTaskGenerator.generateTasksFromLearningGoal and                       *)
(* allocateSimpleSessions.  A generated task is [title, note, order,         *)
(* timeRange]; a study task has the title "Session" and the order of its     *)
(* session (the code writes both into one string, `<subject> - Session <n>`),*)
(* a break has order 0.                                                      *)

\* Math.ceil(a / b) for integers a >= 0 and b > 0
CeilDiv(a, b) == (a + b - 1) \div b

\* lines 893-923: the number of sessions planned for the day
plannedCount(slots, target) ==
    LET totalFree == SumSeq(Durations(slots))
        approxBlock == prepBufferMin + defaultSessionLength + wrapBufferMin
                       + breakDuration
        capacitySessions == Max2(1, totalFree \div Max2(50, approxBlock))
        baseCount == Max2(minSessionsPerDay, CeilDiv(target, defaultSessionLength))
        planned == Min2(maxSessionsPerDay, Min2(baseCount, capacitySessions))
    IN  IF target > 0 /\ target <= 30 THEN 1 ELSE planned

GeneratedTask(title, note, order, from, to) ==
    [title |-> title, note |-> note, order |-> order,
     timeRange |-> [start |-> minutesToTime(from), end |-> minutesToTime(to)]]

\* the macro break of lines 1211-1225 (after sessions) and 1247-1261 (before
\* the next session)
MacroBreak(from, note) ==
    GeneratedTask("Nghi dai", note, 0, from, from + macroBreakMin)

\* the mutant of AfterMacroBreak: the time in the slot is not moved on
AfterMacroBreakStuck(currentSlotTime) == currentSlotTime

\* `currentSlotTime += cfg.macroBreakMin`, lines 1226 and 1262
AfterMacroBreak(currentSlotTime) == currentSlotTime + macroBreakMin

\* the mutant of MacroBreakDue: the break waits for one session more
MacroBreakDueLate(sinceMacro, currentSlotTime, slotEnd) ==
    /\ sinceMacro > macroBreakAfterSessions
    /\ currentSlotTime + macroBreakMin <= slotEnd

\* the condition of lines 1207-1210
MacroBreakDue(sinceMacro, currentSlotTime, slotEnd) ==
    /\ sinceMacro >= macroBreakAfterSessions
    /\ currentSlotTime + macroBreakMin <= slotEnd

\* the mutant of NextSessionIndex: the index stays on the session placed
NextSessionIndexStuck(index) == index

\* `sessionIndex++`, line 1320
NextSessionIndex(index) == index + 1

\* the mutant of totalRequired: no room is kept for the micro break
totalRequiredNoBreak(session) ==
    prepBufferMin + session.duration + wrapBufferMin

\* totalRequired, lines 1233-1237
totalRequired(session) ==
    prepBufferMin + session.duration + wrapBufferMin
    + (IF session.needsBreak THEN breakDuration ELSE 0)

\* one iteration of `for (const slot of sortedSlots)`, lines 1199-1320, past
\* the break of line 1197: the values of generatedTasks, continuousFocus,
\* sessionsSinceMacro and sessionIndex after it
SlotIteration(slot, session, tasks, focus, sinceMacro, index) ==
    LET slotEnd == slot.end
        \* lines 1207-1229
        macro1 == MacroBreakDue(sinceMacro, slot.start, slotEnd)
        time1  == IF macro1 THEN AfterMacroBreak(slot.start) ELSE slot.start
        tasks1 == IF macro1
                  THEN Append(tasks, MacroBreak(slot.start,
                                  "Phuc hoi sau cac buoi hoc lien tiep"))
                  ELSE tasks
        focus1 == IF macro1 THEN 0 ELSE focus
        since1 == IF macro1 THEN 0 ELSE sinceMacro
        skipped == [generatedTasks |-> tasks1, continuousFocus |-> focus1,
                    sessionsSinceMacro |-> since1, sessionIndex |-> index]
        \* lines 1244-1268
        over   == focus1 + session.duration > maxContinuousTime
        macro2 == over /\ time1 + macroBreakMin + totalRequired(session) <= slotEnd
        time2  == IF macro2 THEN AfterMacroBreak(time1) ELSE time1
        tasks2 == IF macro2
                  THEN Append(tasks1, MacroBreak(time1,
                                  "Phuc hoi truoc buoi hoc tiep theo"))
                  ELSE tasks1
        focus2 == IF macro2 THEN 0 ELSE focus1
        since2 == IF macro2 THEN 0 ELSE since1
        \* lines 1271-1289
        studyStart == time2 + prepBufferMin
        studyEnd   == studyStart + session.duration
        tasks3 == Append(tasks2,
                         GeneratedTask("Session", "Tu dong tao", session.order,
                                       studyStart, studyEnd))
        \* lines 1292-1318
        afterStudy == studyEnd + wrapBufferMin
        micro  == session.needsBreak /\ afterStudy + breakDuration <= slotEnd
        tasks4 == IF micro
                  THEN Append(tasks3,
                              GeneratedTask("Nghi giai lao", "Break", 0,
                                            afterStudy, afterStudy + breakDuration))
                  ELSE tasks3
    IN  IF time1 + totalRequired(session) > slotEnd THEN skipped  \* line 1239
        ELSE IF over /\ ~macro2 THEN skipped                       \* line 1266
        ELSE [generatedTasks |-> tasks4,
              continuousFocus |-> IF micro THEN 0 ELSE focus2 + session.duration,
              sessionsSinceMacro |-> since2 + 1,
              sessionIndex |-> NextSessionIndex(index)]

-----------------------------------------------------------------------------
(* The values of the variables of a part of the model that is not running *)

MergeIdle ==
    /\ mpc = "idle" /\ busyIntervals = <<>> /\ merged = <<>> /\ remerged = <<>>

BalIdle ==
    /\ bpc = "idle" /\ bTarget = 0 /\ bCount = 0 /\ bClamped = <<>>
    /\ bSessions = <<>> /\ bSum = 0 /\ bStep = 0 /\ bIdx = 0

FsIdle ==
    /\ fpc = "idle" /\ fsInput = <<>> /\ fsFinder = ""
    /\ fsBlocks = <<>> /\ fsSlots = <<>>

DailyIdle ==
    /\ dpc = "idle" /\ engine = "" /\ fixedSchedule = <<>>
    /\ learningGoals = <<>> /\ freeSlots = <<>> /\ availableSlots = <<>>
    /\ generatedSchedule = <<>> /\ goalIdx = 0 /\ remainingMinutes = 0
    /\ sessionIndex = 0 /\ slotsAtGoalStart = <<>>

TaskIdle ==
    /\ tpc = "idle" /\ dayTasks = <<>> /\ dayTargetMinutes = 0
    /\ taskFreeSlots = <<>> /\ daySessions = <<>> /\ sortedSlots = <<>>
    /\ slotIdx = 0 /\ taskSessionIndex = 0 /\ continuousFocus = 0
    /\ sessionsSinceMacro = 0 /\ generatedTasks = <<>>

SaveIdle ==
    /\ spc = "idle" /\ savedStore = {} /\ saveUserId = "" /\ saveDate = 0
    /\ scheduleItems = <<>> /\ storeBefore = {}

TimeIdle == cpc = "idle" /\ cMinutes = 0 /\ cString = <<>> /\ cBack = 0

RaceIdle ==
    /\ rpc = <<>> /\ raceStore = {} /\ racePlans = <<>> /\ raceOverlap = FALSE

UpdIdle ==
    /\ upc = "idle" /\ taskStore = {} /\ currentDayOfWeek = 0 /\ tasksBefore = {}

AuthIdle ==
    /\ apc = "idle" /\ authHeader = "" /\ tokenHasDot = FALSE
    /\ verifyOutcomes = <<>> /\ createOutcome = "" /\ reqUser = ""
    /\ reqUserId = "" /\ nextCalls = 0 /\ resStatus = 0

UserIdle ==
    /\ callPc = <<>> /\ users = {} /\ callNames = <<>> /\ callUser = <<>>
    /\ loginCountBefore = 0

-----------------------------------------------------------------------------
(* Merging as a function: merge(X), then merge(merge(X)) *)

\* the intervals {start, end} with 0 <= start < end <= MaxPoint
IntervalPool ==
    {iv \in [start : 0..MaxPoint, end : 0..MaxPoint] : iv.start < iv.end}

MergeInit ==
    /\ mpc = "in"
    /\ busyIntervals \in SeqsUpTo(IntervalPool, MaxIntervals)
    /\ merged = <<>>
    /\ remerged = <<>>
    /\ BalIdle /\ FsIdle /\ DailyIdle /\ TaskIdle /\ SaveIdle /\ TimeIdle
    /\ UserIdle
    /\ AuthIdle
    /\ UpdIdle
    /\ RaceIdle

MergeOnce ==
    /\ mpc = "in"
    /\ merged' = MergeIntervals(busyIntervals)
    /\ mpc' = "once"
    /\ UNCHANGED <<busyIntervals, remerged, balVars, fsVars, dailyVars, taskVars,
                   saveVars, timeVars, raceVars, updVars, authVars, userVars>>

MergeTwice ==
    /\ mpc = "once"
    /\ remerged' = MergeIntervals(merged)
    /\ mpc' = "twice"
    /\ UNCHANGED <<busyIntervals, merged, balVars, fsVars, dailyVars, taskVars,
                   saveVars, timeVars, raceVars, updVars, authVars, userVars>>

MergeNext == MergeOnce \/ MergeTwice

SpecMerge == MergeInit /\ [][MergeNext]_vars

-----------------------------------------------------------------------------
(* buildBalancedSessions as a function of (targetMinutes, count), its        *)
(* reconciliation loop taken one iteration at a time                        *)

BalInit ==
    /\ bpc = "call"
    /\ bCount \in 0..BalMaxCount
    /\ bTarget \in 0..(bCount * maxSessionLength + 10)
    /\ bClamped = <<>> /\ bSessions = <<>>
    /\ bSum = 0 /\ bStep = 0 /\ bIdx = 0
    /\ MergeIdle /\ FsIdle /\ DailyIdle /\ TaskIdle /\ SaveIdle /\ TimeIdle
    /\ UserIdle
    /\ AuthIdle
    /\ UpdIdle
    /\ RaceIdle

\* lines 1008-1015: no target, the default sessions
BalFallback ==
    /\ bpc = "call" /\ bTarget <= 0
    /\ bSessions' = buildBalancedSessions(bTarget, bCount)
    /\ bpc' = "ret"
    /\ UNCHANGED <<bTarget, bCount, bClamped, bSum, bStep, bIdx, mergeVars,
                   fsVars, dailyVars, taskVars, saveVars, timeVars, raceVars,
                   updVars, authVars, userVars>>

\* lines 1018-1030: a single session
BalSingle ==
    /\ bpc = "call" /\ bTarget > 0 /\ bCount <= 1
    /\ bSessions' = buildBalancedSessions(bTarget, bCount)
    /\ bpc' = "ret"
    /\ UNCHANGED <<bTarget, bCount, bClamped, bSum, bStep, bIdx, mergeVars,
                   fsVars, dailyVars, taskVars, saveVars, timeVars, raceVars,
                   updVars, authVars, userVars>>

\* lines 1033-1056: the clamped sessions, their sum and the step
BalDistribute ==
    /\ bpc = "call" /\ bTarget > 0 /\ bCount > 1
    /\ bSessions' = ClampedSessions(bTarget, bCount)
    /\ bClamped' = bSessions'
    /\ bSum' = SumSeq(Durations(bSessions'))
    /\ bStep' = StepOf(bSum', bTarget)
    /\ bIdx' = 0
    /\ bpc' = "loop"
    /\ UNCHANGED <<bTarget, bCount, mergeVars, fsVars, dailyVars, taskVars,
                   saveVars, timeVars, raceVars, updVars, authVars, userVars>>

\* lines 1057-1065: one iteration of the reconciliation loop
BalLoopIter ==
    /\ bpc = "loop"
    /\ LoopRuns(bSessions, bSum, bTarget, bIdx)
    /\ LET r == LoopBody(bSessions, bSum, bStep, bIdx)
       IN  bSessions' = r[1] /\ bSum' = r[2]
    /\ bIdx' = bIdx + 1
    /\ UNCHANGED <<bpc, bTarget, bCount, bClamped, bStep, mergeVars,
                   fsVars, dailyVars, taskVars, saveVars, timeVars, raceVars,
                   updVars, authVars, userVars>>

\* line 1068: the loop is over, the sessions are returned
BalReturn ==
    /\ bpc = "loop"
    /\ ~LoopRuns(bSessions, bSum, bTarget, bIdx)
    /\ bpc' = "ret"
    /\ UNCHANGED <<bTarget, bCount, bClamped, bSessions, bSum, bStep, bIdx,
                   mergeVars, fsVars, dailyVars, taskVars, saveVars,
                   timeVars, raceVars, updVars, authVars, userVars>>

BalNext == BalFallback \/ BalSingle \/ BalDistribute \/ BalLoopIter \/ BalReturn

SpecBalanced == BalInit /\ [][BalNext]_vars

\* the call runs on: a step that can be taken is taken
SpecBalancedLive == BalInit /\ [][BalNext]_vars /\ WF_vars(BalNext)

\* the steps above return what the operator buildBalancedSessions computes
BalStepsAgree ==
    bpc = "ret" => bSessions = buildBalancedSessions(bTarget, bCount)

-----------------------------------------------------------------------------
(* The three free-slot finders as functions of the commitments of a day     *)

\* the times of day, in minutes, at which the commitments of the model start
\* and end: 00:05, 09:00, 11:50, 12:30, 23:20 and 23:50
TimePoints == {5, 540, 710, 750, 1400, 1430}

\* title and type of the commitments of the model: one buffered as work, one
\* as a meal, one by default
Activities ==
    {[title |-> "work", type |-> "work"], [title |-> "lunch", type |-> ""],
     [title |-> "gym", type |-> "personal"]}

Commitment(activity, from, to) ==
    [title |-> activity.title, type |-> activity.type,
     startTime |-> from, endTime |-> to]

CommitmentPool ==
    {c \in {Commitment(a, from, to) :
                a \in Activities, from \in TimePoints, to \in TimePoints} :
        c.startTime < c.endTime}

\* the task of Task.find whose time range is that of a commitment
TaskOf(c) ==
    [timeRange |-> [start |-> minutesToTime(c.startTime),
                    end |-> minutesToTime(c.endTime)]]

FsInit ==
    /\ fpc = "in"
    /\ fsInput \in SeqsUpTo(CommitmentPool, MaxCommitments)
    /\ fsFinder = "" /\ fsBlocks = <<>> /\ fsSlots = <<>>
    /\ MergeIdle /\ BalIdle /\ DailyIdle /\ TaskIdle /\ SaveIdle /\ TimeIdle
    /\ UserIdle
    /\ AuthIdle
    /\ UpdIdle
    /\ RaceIdle

FsRan(finder, blocks, slots) ==
    /\ fpc = "in"
    /\ fsFinder' = finder
    /\ fsBlocks' = blocks
    /\ fsSlots' = slots
    /\ fpc' = "out"
    /\ UNCHANGED <<fsInput, mergeVars, balVars, dailyVars, taskVars, saveVars,
                   timeVars, raceVars, updVars, authVars, userVars>>

FsIntelligent ==
    FsRan("findIntelligentFreeSlots", mealsAdded(fsInput),
          findIntelligentFreeSlots(fsInput))

FsBasic ==
    FsRan("findFreeTimeSlots", bufferedBlocks(fsInput),
          findFreeTimeSlots(fsInput))

FsTask ==
    FsRan("findFreeSlots",
          MergeIntervals(BusyIntervalsOf([i \in 1..Len(fsInput) |->
                                             TaskOf(fsInput[i])])),
          findFreeSlots([i \in 1..Len(fsInput) |-> TaskOf(fsInput[i])]))

FsNext == FsIntelligent \/ FsBasic \/ FsTask

SpecFreeSlots == FsInit /\ [][FsNext]_vars

-----------------------------------------------------------------------------
(* generateDailySchedule(userId, targetDate), lines 90-110 and 493-519, up  *)
(* to the plan it returns                                                   *)

\* the fixed commitments of the model: work 09:00-17:00, a meal 11:50-12:30,
\* the gym 23:20-23:50, work from 00:05 to 23:20 (no free slot is left) and
\* work from 06:50 to 22:40 (one free slot of 35 or 40 minutes is left)
FixedPool ==
    {[title |-> "work", type |-> "work", startTime |-> 540, endTime |-> 1020],
     [title |-> "meal prep", type |-> "", startTime |-> 710, endTime |-> 750],
     [title |-> "gym", type |-> "personal", startTime |-> 1400, endTime |-> 1430],
     [title |-> "work", type |-> "work", startTime |-> 5, endTime |-> 1400],
     [title |-> "work", type |-> "work", startTime |-> 410, endTime |-> 1360]}

Goal(subject, target, priority, min, max, preferred, times) ==
    [subject |-> subject, targetMinutes |-> target, priority |-> priority,
     sessionLength |-> [min |-> min, max |-> max, preferred |-> preferred],
     preferredTimeSlots |-> times]

\* the learning goals of the model, targetHoursPerDay being 2, 1, 8 and 0.5
GoalPool ==
    {Goal("react", 120, "high", 30, 90, 60, {"evening"}),
     Goal("english", 60, "medium", 30, 45, 60, {"morning"}),
     Goal("math", 480, "low", 45, 90, 60, {}),
     Goal("react", 30, "medium", 30, 60, 45, {"early-morning", "night"})}

DailyInit ==
    /\ dpc = "start"
    /\ engine \in {"enhanced", "basic"}
    /\ fixedSchedule \in SeqsUpTo(FixedPool, MaxFixed)
    /\ learningGoals \in SeqsUpTo(GoalPool, MaxGoals)
    /\ freeSlots = <<>> /\ availableSlots = <<>> /\ generatedSchedule = <<>>
    /\ goalIdx = 0 /\ remainingMinutes = 0 /\ sessionIndex = 0
    /\ slotsAtGoalStart = <<>>
    /\ MergeIdle /\ BalIdle /\ FsIdle /\ TaskIdle /\ SaveIdle /\ TimeIdle
    /\ UserIdle
    /\ AuthIdle
    /\ UpdIdle
    /\ RaceIdle

\* lines 101 and 506, and the first lines of the allocator, 239-240, 605-606
FindSlots ==
    /\ dpc = "start"
    /\ freeSlots' = IF engine = "enhanced"
                    THEN findIntelligentFreeSlots(fixedSchedule)
                    ELSE findFreeTimeSlots(fixedSchedule)
    /\ availableSlots' = freeSlots'
    /\ generatedSchedule' = <<>>
    /\ goalIdx' = 0
    /\ dpc' = "for"
    /\ UNCHANGED <<engine, fixedSchedule, learningGoals, remainingMinutes,
                   sessionIndex, slotsAtGoalStart,
                   mergeVars, balVars, fsVars, taskVars, saveVars, timeVars,
                   raceVars, updVars, authVars, userVars>>

\* `for (const goal of learningGoals)` takes the next goal, lines 242-248
\* and 609-611
ForGoal ==
    /\ dpc = "for"
    /\ goalIdx < Len(learningGoals)
    /\ goalIdx' = goalIdx + 1
    /\ remainingMinutes' = learningGoals[goalIdx'].targetMinutes
    /\ sessionIndex' = 0
    /\ slotsAtGoalStart' = availableSlots
    /\ dpc' = "while"
    /\ UNCHANGED <<engine, fixedSchedule, learningGoals, freeSlots,
                   availableSlots, generatedSchedule,
                   mergeVars, balVars, fsVars, taskVars, saveVars, timeVars,
                   raceVars, updVars, authVars, userVars>>

goal == learningGoals[goalIdx]
template == getContentTemplate(goal.subject)
bestSlot == findBestSlotForGoal(goal, availableSlots, engine = "enhanced")
currentSession == template[sessionIndex + 1]
sessionDuration ==
    IF engine = "enhanced"
    THEN EnhancedSessionDuration(goal, currentSession, remainingMinutes, bestSlot)
    ELSE calculateOptimalSessionDuration(goal, bestSlot.duration, remainingMinutes)

\* the mutant of WhileCondition: the last entry of the template is never used
WhileConditionShort ==
    /\ remainingMinutes > 0
    /\ Len(availableSlots) > 0
    /\ engine = "enhanced" => sessionIndex < Len(template) - 1

\* the condition of the while loop, line 250 or 614
WhileCondition ==
    /\ remainingMinutes > 0
    /\ Len(availableSlots) > 0
    /\ engine = "enhanced" => sessionIndex < Len(template)

\* the loop goes through an iteration that emits a session: no break at line
\* 252 or 622, and in the enhanced engine none at line 288
EmitsSession ==
    /\ WhileCondition
    /\ bestSlot # NoSlot
    /\ engine = "enhanced" => sessionDuration >= goal.sessionLength.min

\* one iteration of the while loop of the enhanced engine, lines 251-286
EnhancedSession ==
    /\ dpc = "while" /\ engine = "enhanced"
    /\ EmitsSession
    /\ generatedSchedule' =
           Append(generatedSchedule,
                  ScheduleItem(goalIdx, currentSession.topic,
                               currentSession.order, bestSlot, sessionDuration))
    /\ remainingMinutes' = remainingMinutes - sessionDuration
    /\ sessionIndex' = sessionIndex + 1
    /\ availableSlots' =
           updateAvailableSlot(availableSlots, bestSlot, sessionDuration)
    /\ UNCHANGED <<dpc, engine, fixedSchedule, learningGoals, freeSlots,
                   goalIdx, slotsAtGoalStart,
                   mergeVars, balVars, fsVars, taskVars, saveVars, timeVars,
                   raceVars, updVars, authVars, userVars>>

\* one iteration of the while loop of the basic engine, lines 616-652
BasicSession ==
    /\ dpc = "while" /\ engine = "basic"
    /\ EmitsSession
    /\ generatedSchedule' =
           Append(generatedSchedule,
                  ScheduleItem(goalIdx, "", 0, bestSlot, sessionDuration))
    /\ remainingMinutes' = remainingMinutes - sessionDuration
    /\ availableSlots' =
           updateAvailableSlot(availableSlots, bestSlot, sessionDuration)
    /\ UNCHANGED <<dpc, engine, fixedSchedule, learningGoals, freeSlots,
                   goalIdx, sessionIndex, slotsAtGoalStart,
                   mergeVars, balVars, fsVars, taskVars, saveVars, timeVars,
                   raceVars, updVars, authVars, userVars>>

\* the while loop ends (its condition fails, or a break): back to the for
GoalDone ==
    /\ dpc = "while"
    /\ ~EmitsSession
    /\ dpc' = "for"
    /\ UNCHANGED <<engine, fixedSchedule, learningGoals, freeSlots,
                   availableSlots, generatedSchedule, goalIdx, remainingMinutes,
                   sessionIndex, slotsAtGoalStart,
                   mergeVars, balVars, fsVars, taskVars, saveVars, timeVars,
                   raceVars, updVars, authVars, userVars>>

\* `return generatedSchedule.sort(...)`, lines 293 and 656
ReturnSchedule ==
    /\ dpc = "for"
    /\ goalIdx = Len(learningGoals)
    /\ generatedSchedule' = SortByStartTime(generatedSchedule)
    /\ dpc' = "done"
    /\ UNCHANGED <<engine, fixedSchedule, learningGoals, freeSlots,
                   availableSlots, goalIdx, remainingMinutes, sessionIndex,
                   slotsAtGoalStart, mergeVars, balVars, fsVars, taskVars,
                   saveVars, timeVars, raceVars, updVars, authVars, userVars>>

DailyNext ==
    FindSlots \/ ForGoal \/ EnhancedSession \/ BasicSession \/ GoalDone
    \/ ReturnSchedule

SpecDaily == DailyInit /\ [][DailyNext]_vars

-----------------------------------------------------------------------------
(* generateTasksFromLearningGoal(userId, learningGoal), lines 869-949, for   *)
(* one weekday                                                              *)

ExistingTask(from, to) ==
    [timeRange |-> [start |-> minutesToTime(from), end |-> minutesToTime(to)]]

\* the existing tasks of the model: 07:00-08:00, 11:00-11:50, 13:10-17:30,
\* 22:30-23:00, 06:00-17:30, 19:30-20:00, 09:30-10:00, 14:15-17:30 and
\* 15:00-15:30
TaskPool ==
    {ExistingTask(420, 480), ExistingTask(660, 710), ExistingTask(790, 1050),
     ExistingTask(1350, 1380), ExistingTask(360, 1050), ExistingTask(1170, 1200),
     ExistingTask(570, 600), ExistingTask(855, 1050), ExistingTask(900, 930)}

\* the values of Math.round((learningGoal.targetHoursPerDay || 0) * 60) of
\* the model
TargetPool == {0, 15, 20, 40, 45, 50, 60, 90, 97, 135, 180, 240, 480}

TaskInit ==
    /\ tpc = "start"
    /\ dayTasks \in SeqsUpTo(TaskPool, MaxDayTasks)
    /\ dayTargetMinutes \in TargetPool
    /\ taskFreeSlots = <<>> /\ daySessions = <<>> /\ sortedSlots = <<>>
    /\ slotIdx = 0 /\ taskSessionIndex = 0 /\ continuousFocus = 0
    /\ sessionsSinceMacro = 0 /\ generatedTasks = <<>>
    /\ MergeIdle /\ BalIdle /\ FsIdle /\ DailyIdle /\ SaveIdle /\ TimeIdle
    /\ UserIdle
    /\ AuthIdle
    /\ UpdIdle
    /\ RaceIdle

\* line 890
TaskFindFreeSlots ==
    /\ tpc = "start"
    /\ taskFreeSlots' = findFreeSlots(dayTasks)
    /\ tpc' = "plan"
    /\ UNCHANGED <<dayTasks, dayTargetMinutes, daySessions, sortedSlots, slotIdx,
                   taskSessionIndex, continuousFocus, sessionsSinceMacro,
                   generatedTasks, mergeVars, balVars, fsVars, dailyVars,
                   saveVars, timeVars, raceVars, updVars, authVars, userVars>>

\* lines 893-929, and the first lines of allocateSimpleSessions, 1188-1194
PlanSessions ==
    /\ tpc = "plan"
    /\ daySessions' =
           buildBalancedSessions(dayTargetMinutes,
                                 plannedCount(taskFreeSlots, dayTargetMinutes))
    /\ sortedSlots' = SortByStart(taskFreeSlots)
    /\ slotIdx' = 1
    /\ taskSessionIndex' = 0 /\ continuousFocus' = 0 /\ sessionsSinceMacro' = 0
    /\ generatedTasks' = <<>>
    /\ tpc' = "slots"
    /\ UNCHANGED <<dayTasks, dayTargetMinutes, taskFreeSlots,
                   mergeVars, balVars, fsVars, dailyVars, saveVars, timeVars,
                   raceVars, updVars, authVars, userVars>>

\* one iteration of the loop over the slots, lines 1196-1321
AllocateSlot ==
    /\ tpc = "slots"
    /\ slotIdx <= Len(sortedSlots)
    /\ taskSessionIndex < Len(daySessions)
    /\ LET after == SlotIteration(sortedSlots[slotIdx],
                                  daySessions[taskSessionIndex + 1],
                                  generatedTasks, continuousFocus,
                                  sessionsSinceMacro, taskSessionIndex)
       IN  /\ generatedTasks' = after.generatedTasks
           /\ continuousFocus' = after.continuousFocus
           /\ sessionsSinceMacro' = after.sessionsSinceMacro
           /\ taskSessionIndex' = after.sessionIndex
    /\ slotIdx' = slotIdx + 1
    /\ UNCHANGED <<tpc, dayTasks, dayTargetMinutes, taskFreeSlots, daySessions,
                   sortedSlots, mergeVars, balVars, fsVars, dailyVars,
                   saveVars, timeVars, raceVars, updVars, authVars, userVars>>

\* the loop is over (no slot left, or the break of line 1197): line 1323
ReturnTasks ==
    /\ tpc = "slots"
    /\ slotIdx > Len(sortedSlots) \/ taskSessionIndex >= Len(daySessions)
    /\ tpc' = "done"
    /\ UNCHANGED <<dayTasks, dayTargetMinutes, taskFreeSlots, daySessions,
                   sortedSlots, slotIdx, taskSessionIndex, continuousFocus,
                   sessionsSinceMacro, generatedTasks,
                   mergeVars, balVars, fsVars, dailyVars, saveVars, timeVars,
                   raceVars, updVars, authVars, userVars>>

TaskNext == TaskFindFreeSlots \/ PlanSessions \/ AllocateSlot \/ ReturnTasks

SpecTask == TaskInit /\ [][TaskNext]_vars

-----------------------------------------------------------------------------
(* saveGeneratedSchedule(userId, scheduleItems, targetDate), lines 425-453   *)
(* and 788-812.  The GeneratedSchedule collection is a set of documents      *)
(* [userId, date, item, status]; date is the day, item stands for the fields *)
(* copied from a schedule item.                                              *)

SaveUsers == {"u1", "u2"}
SaveDates == {1, 2}
SaveItems == {"a", "b"}

\* the mutant of deleteMany: nothing is deleted
deleteManyNothing(collection, userId, date) == collection

\* GeneratedSchedule.deleteMany({userId, date: {$gte: start of day, $lte: end
\* of day}}), lines 426-432 and 790-796
deleteMany(collection, userId, date) ==
    {doc \in collection : ~(doc.userId = userId /\ doc.date = date)}

\* scheduleItems.map(item => ({userId, date, ..., status: 'scheduled'})),
\* lines 434-448 and 799-807
scheduleDocuments(userId, items, date) ==
    [i \in 1..Len(items) |->
        [userId |-> userId, date |-> date, item |-> items[i],
         status |-> "scheduled"]]

\* the mutant of insertMany: the documents written replace the plan stored
\* for their (userId, date)
insertManyReplacing(collection, documents) ==
    {doc \in collection :
        \A i \in 1..Len(documents) :
            ~(doc.userId = documents[i].userId /\ doc.date = documents[i].date)}
    \cup {documents[i] : i \in 1..Len(documents)}

\* GeneratedSchedule.insertMany(scheduleDocuments)
insertMany(collection, documents) ==
    collection \cup {documents[i] : i \in 1..Len(documents)}

\* the plan the collection holds for (userId, date)
PlanOf(collection, userId, date) ==
    {doc \in collection : doc.userId = userId /\ doc.date = date}

SaveInit ==
    /\ spc = "start"
    /\ savedStore \in SUBSET [userId : SaveUsers, date : SaveDates,
                              item : SaveItems, status : {"scheduled"}]
    /\ saveUserId \in SaveUsers
    /\ saveDate \in SaveDates
    /\ scheduleItems \in SeqsUpTo(SaveItems, MaxPlanLen)
    /\ storeBefore = savedStore
    /\ MergeIdle /\ BalIdle /\ FsIdle /\ DailyIdle /\ TaskIdle /\ TimeIdle
    /\ UserIdle
    /\ AuthIdle
    /\ UpdIdle
    /\ RaceIdle

\* `await GeneratedSchedule.deleteMany(...)` completes
SaveDeleteMany ==
    /\ spc = "start"
    /\ savedStore' = deleteMany(savedStore, saveUserId, saveDate)
    /\ spc' = "deleted"
    /\ UNCHANGED <<saveUserId, saveDate, scheduleItems, storeBefore,
                   mergeVars, balVars, fsVars, dailyVars, taskVars, timeVars,
                   raceVars, updVars, authVars, userVars>>

\* lines 450-452 and 809-811: insertMany if there is a document, then return
SaveInsertMany ==
    /\ spc = "deleted"
    /\ savedStore' =
           IF Len(scheduleDocuments(saveUserId, scheduleItems, saveDate)) > 0
           THEN insertMany(savedStore,
                           scheduleDocuments(saveUserId, scheduleItems, saveDate))
           ELSE savedStore
    /\ spc' = "done"
    /\ UNCHANGED <<saveUserId, saveDate, scheduleItems, storeBefore,
                   mergeVars, balVars, fsVars, dailyVars, taskVars, timeVars,
                   raceVars, updVars, authVars, userVars>>

\* `await GeneratedSchedule.insertMany(...)` rejects: nothing catches it in
\* saveGeneratedSchedule, nothing restores what deleteMany removed
SaveInsertFails ==
    /\ spc = "deleted"
    /\ Len(scheduleDocuments(saveUserId, scheduleItems, saveDate)) > 0
    /\ spc' = "failed"
    /\ UNCHANGED <<savedStore, saveUserId, saveDate, scheduleItems, storeBefore,
                   mergeVars, balVars, fsVars, dailyVars, taskVars, timeVars,
                   raceVars, updVars, authVars, userVars>>

\* the process stops between the two awaits
SaveStops ==
    /\ spc = "deleted"
    /\ spc' = "stopped"
    /\ UNCHANGED <<savedStore, saveUserId, saveDate, scheduleItems, storeBefore,
                   mergeVars, balVars, fsVars, dailyVars, taskVars, timeVars,
                   raceVars, updVars, authVars, userVars>>

SaveNext == SaveDeleteMany \/ SaveInsertMany \/ SaveInsertFails \/ SaveStops

SpecSave == SaveInit /\ [][SaveNext]_vars

-----------------------------------------------------------------------------
(* Two runs of generateDailySchedule(userId, targetDate), lines 90-110, for  *)
(* the same (userId, date), from the point where each has computed its plan  *)
(* (line 104) on: the awaits of saveGeneratedSchedule are the points where   *)
(* the other run can take a step.  A stored document carries the _id the     *)
(* database gave it, here id = <<run, place in the plan>>; run 0 wrote the   *)
(* plan that is stored at the start.                                         *)

Runs == {1, 2}
RaceUser == "u1"
RaceDate == 1

\* the documents run `r` writes for the plan `items`, as stored
StoredDocuments(r, items) ==
    [i \in 1..Len(items) |->
        scheduleDocuments(RaceUser, items, RaceDate)[i] @@ [id |-> <<r, i>>]]

DocumentSet(r, items) ==
    {StoredDocuments(r, items)[i] : i \in 1..Len(items)}

RaceInit ==
    /\ rpc = [r \in Runs |-> "start"]
    /\ racePlans \in [Runs -> SeqsUpTo(SaveItems, MaxPlanLen)]
    /\ raceStore \in {DocumentSet(0, items) :
                          items \in SeqsUpTo(SaveItems, MaxPlanLen)}
    /\ raceOverlap = FALSE
    /\ MergeIdle /\ BalIdle /\ FsIdle /\ DailyIdle /\ TaskIdle /\ SaveIdle
    /\ UserIdle
    /\ AuthIdle
    /\ UpdIdle
    /\ TimeIdle

\* `await GeneratedSchedule.deleteMany(...)` of run r completes, lines 426-432
RaceDeleteMany(r) ==
    /\ rpc[r] = "start"
    /\ raceStore' = deleteMany(raceStore, RaceUser, RaceDate)
    /\ rpc' = [rpc EXCEPT ![r] = "deleted"]
    /\ raceOverlap' = (raceOverlap \/ \E q \in Runs \ {r} : rpc[q] = "deleted")
    /\ UNCHANGED <<racePlans, mergeVars, balVars, fsVars, dailyVars, taskVars,
                   saveVars, timeVars, updVars, authVars, userVars>>

\* lines 434-452 of run r: insertMany if there is a document, then the return
\* of line 109
RaceInsertMany(r) ==
    /\ rpc[r] = "deleted"
    /\ raceStore' =
           IF Len(StoredDocuments(r, racePlans[r])) > 0
           THEN insertMany(raceStore, StoredDocuments(r, racePlans[r]))
           ELSE raceStore
    /\ rpc' = [rpc EXCEPT ![r] = "done"]
    /\ UNCHANGED <<racePlans, raceOverlap, mergeVars, balVars, fsVars,
                   dailyVars, taskVars, saveVars, timeVars, updVars,
                   authVars, userVars>>

RaceNext == \E r \in Runs : RaceDeleteMany(r) \/ RaceInsertMany(r)

SpecRace == RaceInit /\ [][RaceNext]_vars

-----------------------------------------------------------------------------
(* updateTasksForLearningGoal(userId, learningGoal), lines 1411-1427.  A     *)
(* stored task is [learningGoalId, isAutoGenerated, weekday, made]: weekday  *)
(* is the one entry of its weekdays, made tells the tasks stored before the  *)
(* call ("before") from those the call inserts ("call").  Which weekdays     *)
(* receive tasks depends on the free slots of each day; here any set of the  *)
(* weekdays that the loop of lines 880-941 does not skip can receive one.    *)

Weekdays == 0..6
UpdatedGoal == "g1"

StoredTask(goalId, auto, weekday, made) ==
    [learningGoalId |-> goalId, isAutoGenerated |-> auto, weekday |-> weekday,
     made |-> made]

\* Task.deleteMany({learningGoalId, isAutoGenerated: true}), lines 1411-1416
removeAutoGeneratedTasks(tasks, learningGoalId) ==
    {t \in tasks : ~(t.learningGoalId = learningGoalId /\ t.isAutoGenerated)}

\* the weekdays for which the loop of lines 880-941 generates tasks
DaysGenerated(dayOfWeek) == {d \in Weekdays : ~(d < dayOfWeek)}

UpdInit ==
    /\ upc = "start"
    /\ currentDayOfWeek \in Weekdays
    /\ \E days \in SUBSET Weekdays :
          taskStore = {StoredTask(UpdatedGoal, TRUE, d, "before") : d \in days}
                      \cup {StoredTask(UpdatedGoal, FALSE, 1, "before"),
                            StoredTask("g2", TRUE, 1, "before")}
    /\ tasksBefore = taskStore
    /\ MergeIdle /\ BalIdle /\ FsIdle /\ DailyIdle /\ TaskIdle /\ SaveIdle
    /\ UserIdle
    /\ AuthIdle
    /\ TimeIdle /\ RaceIdle

\* line 1423: `await this.removeAutoGeneratedTasks(learningGoal._id)`
UpdRemove ==
    /\ upc = "start"
    /\ taskStore' = removeAutoGeneratedTasks(taskStore, UpdatedGoal)
    /\ upc' = "removed"
    /\ UNCHANGED <<currentDayOfWeek, tasksBefore, mergeVars, balVars, fsVars,
                   dailyVars, taskVars, saveVars, timeVars, raceVars,
                   authVars, userVars>>

\* line 1426: generateTasksFromLearningGoal, its loop over the weekdays and
\* its insertMany (lines 880-946)
UpdGenerate ==
    /\ upc = "removed"
    /\ \E days \in SUBSET DaysGenerated(currentDayOfWeek) :
          taskStore' = taskStore
                       \cup {StoredTask(UpdatedGoal, TRUE, d, "call") : d \in days}
    /\ upc' = "done"
    /\ UNCHANGED <<currentDayOfWeek, tasksBefore, mergeVars, balVars, fsVars,
                   dailyVars, taskVars, saveVars, timeVars, raceVars,
                   authVars, userVars>>

UpdNext == UpdRemove \/ UpdGenerate

SpecUpdate == UpdInit /\ [][UpdNext]_vars

-----------------------------------------------------------------------------
(* src/src/middleware/firebaseAuth.js: optionalFirebaseAuth, lines 121-140,  *)
(* and authenticateFirebase, lines 41-116, which it awaits, for one request. *)
(* A property of req that was never assigned reads "undefined".              *)

\* `!authHeader || !authHeader.startsWith("Bearer ")`, lines 45 and 125
IsBearer(header) == header = "Bearer <token>"

AuthHeaders == {"", "Basic x", "Bearer <token>"}

\* the codes of the errors verifyIdToken rejects with
VerifyErrors == {"auth/id-token-expired", "auth/invalid-id-token",
                 "auth/argument-error", "unavailable"}

AuthInit ==
    /\ apc = "start"
    /\ authHeader \in AuthHeaders
    /\ tokenHasDot \in BOOLEAN
    /\ verifyOutcomes \in [1..2 -> {"ok"} \cup VerifyErrors]
    /\ createOutcome \in {"ok", "throws"}
    /\ reqUser = "undefined" /\ reqUserId = "undefined"
    /\ nextCalls = 0 /\ resStatus = 0
    /\ MergeIdle /\ BalIdle /\ FsIdle /\ DailyIdle /\ TaskIdle /\ SaveIdle
    /\ UserIdle
    /\ TimeIdle /\ RaceIdle /\ UpdIdle

\* the catch of lines 99-115: `return res.status(401).json(...)`; nothing is
\* thrown to the caller and next is not called
Respond401 ==
    /\ resStatus' = 401
    /\ apc' = "done"
    /\ UNCHANGED <<reqUser, reqUserId, nextCalls>>

\* lines 125-130: no Bearer token, the request goes on as a guest
OptionalGuest ==
    /\ apc = "start" /\ ~IsBearer(authHeader)
    /\ reqUser' = "null" /\ reqUserId' = "null"
    /\ nextCalls' = nextCalls + 1
    /\ apc' = "done"
    /\ UNCHANGED <<authHeader, tokenHasDot, verifyOutcomes, createOutcome,
                   resStatus, mergeVars, balVars, fsVars, dailyVars, taskVars,
                   saveVars, timeVars, raceVars, updVars, userVars>>

\* line 133, then lines 43-56 of authenticateFirebase: the header is a Bearer
\* token, verifyIdToken is awaited
OptionalDelegates ==
    /\ apc = "start" /\ IsBearer(authHeader)
    /\ apc' = "verify"
    /\ UNCHANGED <<authHeader, tokenHasDot, verifyOutcomes, createOutcome,
                   reqUser, reqUserId, nextCalls, resStatus, mergeVars, balVars,
                   fsVars, dailyVars, taskVars, saveVars, timeVars, raceVars,
                   updVars, userVars>>

\* line 56 settles: on success the user is created or updated next; on an
\* argument error with a dotted token verifyIdToken is tried again (lines
\* 74-76); any other error goes to the catch of line 99
AuthVerified ==
    /\ apc = "verify"
    /\ IF verifyOutcomes[1] = "ok"
       THEN apc' = "create" /\ UNCHANGED <<reqUser, reqUserId, nextCalls, resStatus>>
       ELSE IF verifyOutcomes[1] = "auth/argument-error" /\ tokenHasDot
       THEN apc' = "verifyAgain"
            /\ UNCHANGED <<reqUser, reqUserId, nextCalls, resStatus>>
       ELSE Respond401
    /\ UNCHANGED <<authHeader, tokenHasDot, verifyOutcomes, createOutcome,
                   mergeVars, balVars, fsVars, dailyVars, taskVars, saveVars,
                   timeVars, raceVars, updVars, userVars>>

\* line 76 settles
AuthVerifiedAgain ==
    /\ apc = "verifyAgain"
    /\ IF verifyOutcomes[2] = "ok"
       THEN apc' = "create" /\ UNCHANGED <<reqUser, reqUserId, nextCalls, resStatus>>
       ELSE Respond401
    /\ UNCHANGED <<authHeader, tokenHasDot, verifyOutcomes, createOutcome,
                   mergeVars, balVars, fsVars, dailyVars, taskVars, saveVars,
                   timeVars, raceVars, updVars, userVars>>

\* lines 60-71 and 80-91: createOrUpdateFromFirebase settles; on success
\* req.user and req.userId are set and next is called
AuthUserStored ==
    /\ apc = "create"
    /\ IF createOutcome = "ok"
       THEN /\ reqUser' = "user" /\ reqUserId' = "id"
            /\ nextCalls' = nextCalls + 1
            /\ apc' = "done"
            /\ UNCHANGED resStatus
       ELSE Respond401
    /\ UNCHANGED <<authHeader, tokenHasDot, verifyOutcomes, createOutcome,
                   mergeVars, balVars, fsVars, dailyVars, taskVars, saveVars,
                   timeVars, raceVars, updVars, userVars>>

AuthNext ==
    \/ OptionalGuest \/ OptionalDelegates \/ AuthVerified \/ AuthVerifiedAgain
    \/ AuthUserStored

SpecAuth == AuthInit /\ [][AuthNext]_vars

-----------------------------------------------------------------------------
(* src/unnamed/part_001: UserSchema.statics.createOrUpdateFromFirebase,      *)
(* lines 130-168, called twice for one firebaseUid (two requests of the same *)
(* user passing authenticateFirebase).  Each await (findOne, save, create)   *)
(* is a point where the other call can take a step.  firebaseUid has a       *)
(* unique index (lines 57-62, 126).                                          *)

Calls == {1, 2}
CalledUid == "uid"
DisplayNames == {"", "A", "B"}

UserRecord(name, loginCount) ==
    [firebaseUid |-> CalledUid, name |-> name, loginCount |-> loginCount]

\* null, where a document is expected
NoUser == [firebaseUid |-> "", name |-> "", loginCount |-> 0]

\* `a || b` on strings
OrElse(a, b) == IF a # "" THEN a ELSE b

\* this.findOne({ firebaseUid: uid }), line 137
findOne(collection, uid) ==
    IF \E u \in collection : u.firebaseUid = uid
    THEN CHOOSE u \in collection : u.firebaseUid = uid
    ELSE NoUser

UserInit ==
    /\ callPc = [c \in Calls |-> "findOne"]
    /\ callNames \in [Calls -> DisplayNames]
    /\ callUser = [c \in Calls |-> NoUser]
    /\ \/ users = {} /\ loginCountBefore = 0
       \/ \E n \in 1..MaxLoginCount :
             users = {UserRecord("Google User", n)} /\ loginCountBefore = n
    /\ MergeIdle /\ BalIdle /\ FsIdle /\ DailyIdle /\ TaskIdle /\ SaveIdle
    /\ TimeIdle /\ RaceIdle /\ UpdIdle /\ AuthIdle

\* line 137 settles: `let user = await this.findOne(...)`, then the branch of
\* line 139 and the assignments of lines 141-145 on the document in hand
UserFindOne(c) ==
    /\ callPc[c] = "findOne"
    /\ LET user == findOne(users, CalledUid)
       IN  IF user # NoUser
           THEN /\ callUser' = [callUser EXCEPT ![c] =
                                   [user EXCEPT !.name = OrElse(callNames[c], @),
                                                !.loginCount = @ + 1]]
                /\ callPc' = [callPc EXCEPT ![c] = "save"]
           ELSE /\ callUser' = callUser
                /\ callPc' = [callPc EXCEPT ![c] = "create"]
    /\ UNCHANGED <<users, callNames, loginCountBefore, mergeVars, balVars,
                   fsVars, dailyVars, taskVars, saveVars, timeVars, raceVars,
                   updVars, authVars>>

\* line 147 settles: `await user.save()` writes the fields the call modified
\* on its document (loginCount, and name when a displayName was given) over
\* the stored record
UserSave(c) ==
    /\ callPc[c] = "save"
    /\ users' = {IF u.firebaseUid = CalledUid
                 THEN [u EXCEPT !.loginCount = callUser[c].loginCount,
                                !.name = OrElse(callNames[c], @)]
                 ELSE u : u \in users}
    /\ callPc' = [callPc EXCEPT ![c] = "returned"]
    /\ UNCHANGED <<callNames, callUser, loginCountBefore, mergeVars, balVars,
                   fsVars, dailyVars, taskVars, saveVars, timeVars, raceVars,
                   updVars, authVars>>

\* lines 152-159 settle: `await this.create({...})`; the unique index rejects a
\* second record of the firebaseUid, and the error is thrown on (line 166)
UserCreate(c) ==
    /\ callPc[c] = "create"
    /\ IF findOne(users, CalledUid) = NoUser
       THEN /\ users' = users \cup {UserRecord(OrElse(callNames[c], "Google User"), 1)}
            /\ callUser' = [callUser EXCEPT ![c] =
                               UserRecord(OrElse(callNames[c], "Google User"), 1)]
            /\ callPc' = [callPc EXCEPT ![c] = "returned"]
       ELSE /\ callPc' = [callPc EXCEPT ![c] = "threw"]
            /\ UNCHANGED <<users, callUser>>
    /\ UNCHANGED <<callNames, loginCountBefore, mergeVars, balVars, fsVars,
                   dailyVars, taskVars, saveVars, timeVars, raceVars, updVars,
                   authVars>>

UserNext == \E c \in Calls : UserFindOne(c) \/ UserSave(c) \/ UserCreate(c)

SpecUser == UserInit /\ [][UserNext]_vars

-----------------------------------------------------------------------------
(* minutesToTime and timeToMinutes as functions of the minutes of a day *)

\* the valid inputs: the minutes of a day, 0 to 1439
DayMinutes == 0..(24 * 60 - 1)

TimeInit ==
    /\ cpc = "in"
    /\ cMinutes \in DayMinutes
    /\ cString = <<>> /\ cBack = 0
    /\ MergeIdle /\ BalIdle /\ FsIdle /\ DailyIdle /\ TaskIdle /\ SaveIdle
    /\ UserIdle
    /\ AuthIdle
    /\ UpdIdle
    /\ RaceIdle

TimeFormat ==
    /\ cpc = "in"
    /\ cString' = minutesToTime(cMinutes)
    /\ cpc' = "string"
    /\ UNCHANGED <<cMinutes, cBack, mergeVars, balVars, fsVars, dailyVars,
                   taskVars, saveVars, raceVars, updVars, authVars, userVars>>

TimeParse ==
    /\ cpc = "string"
    /\ cBack' = timeToMinutes(cString)
    /\ cpc' = "back"
    /\ UNCHANGED <<cMinutes, cString, mergeVars, balVars, fsVars, dailyVars,
                   taskVars, saveVars, raceVars, updVars, authVars, userVars>>

TimeNext == TimeFormat \/ TimeParse

SpecTime == TimeInit /\ [][TimeNext]_vars

-----------------------------------------------------------------------------
(* Claims about the time strings *)

IsDigit(ch) == \E k \in 1..Len(DigitChars) : DigitChars[k] = ch

\* a zero-padded 24-hour "HH:MM" string
IsHHMM(str) ==
    /\ Len(str) = 5
    /\ str[3] = ":"
    /\ \A i \in {1, 2, 4, 5} : IsDigit(str[i])
    /\ StringToNumber(SubSeq(str, 1, 2)) <= 23
    /\ StringToNumber(SubSeq(str, 4, 5)) <= 59

\* C15: for every integer m in [0, 1439], timeToMinutes(minutesToTime(m)) = m
\* and minutesToTime(m) is a zero-padded 24-hour "HH:MM" string.
C15_TimeRoundTrip ==
    /\ cpc \in {"string", "back"} => IsHHMM(cString)
    /\ cpc = "back" => cBack = cMinutes

\* the case of C15: 09:05, where both the hours and the minutes are padded,
\* taken there and back
C15_Witness ==
    /\ cpc = "back"
    /\ cMinutes = 9 * 60 + 5
    /\ cString = <<"0", "9", ":", "0", "5">>
    /\ cBack = cMinutes

-----------------------------------------------------------------------------
(* Claims about saveGeneratedSchedule *)

C26_OnePlanIfExcluded ==
    (\A r \in Runs : rpc[r] = "done") =>
        IF raceOverlap
        THEN PlanOf(raceStore, RaceUser, RaceDate)
                 = DocumentSet(1, racePlans[1]) \cup DocumentSet(2, racePlans[2])
        ELSE \E r \in Runs :
                 PlanOf(raceStore, RaceUser, RaceDate) = DocumentSet(r, racePlans[r])

\* the case of C26 without exclusion: both runs deleted before either
\* inserted, both plans hold two items, and the store ends with the four
\* documents
C26_Witness ==
    /\ \A r \in Runs : rpc[r] = "done" /\ Len(racePlans[r]) = 2
    /\ raceOverlap
    /\ Cardinality(PlanOf(raceStore, RaceUser, RaceDate)) = 4

\* the auto-generated tasks of the goal among `tasks`
AutoTasksOfGoal(tasks) ==
    {t \in tasks : t.learningGoalId = UpdatedGoal /\ t.isAutoGenerated}

\* C27: updateTasksForLearningGoal produces a rolling "from now on" plan: the
\* goal's auto-generated tasks on weekdays strictly before today's weekday
\* index are left unchanged in the store, and only its tasks for today and
\* later weekdays are deleted and regenerated.
C27_EarlierWeekdaysUntouched ==
    upc = "done" =>
        /\ {t \in AutoTasksOfGoal(taskStore) : t.weekday < currentDayOfWeek}
               = {t \in AutoTasksOfGoal(tasksBefore) : t.weekday < currentDayOfWeek}
        /\ \A t \in AutoTasksOfGoal(taskStore) :
               t.weekday >= currentDayOfWeek => t.made = "call"
        /\ taskStore \ AutoTasksOfGoal(taskStore)
               = tasksBefore \ AutoTasksOfGoal(tasksBefore)

\* verification of the token of the request failed
VerificationFailed ==
    /\ IsBearer(authHeader)
    /\ verifyOutcomes[1] # "ok"
    /\ ~(verifyOutcomes[1] = "auth/argument-error" /\ tokenHasDot
         /\ verifyOutcomes[2] = "ok")

\* C28: optionalFirebaseAuth never rejects a request: when the Authorization
\* header is missing, not a Bearer token, or carries a token that fails
\* verification, it sets req.user = null and req.userId = null, calls next()
\* exactly once and sends no error response, so the request continues as a
\* guest.
C28_OptionalAuthNeverRejects ==
    apc = "done" =>
        /\ resStatus = 0
        /\ nextCalls = 1
        /\ (~IsBearer(authHeader) \/ VerificationFailed) =>
               reqUser = "null" /\ reqUserId = "null"

\* C29: User.createOrUpdateFromFirebase is safe under concurrent calls for the
\* same firebaseUid: for every interleaving of two calls at their await
\* points (findOne, then create or save), both calls return a user without
\* error, exactly one User record with that firebaseUid exists afterwards,
\* and its loginCount has grown by one per completed call.
C29_ConcurrentCallsSafe ==
    (\A c \in Calls : callPc[c] \in {"returned", "threw"}) =>
        /\ \A c \in Calls : callPc[c] = "returned" /\ callUser[c] # NoUser
        /\ Cardinality({u \in users : u.firebaseUid = CalledUid}) = 1
        /\ \A u \in users :
               u.firebaseUid = CalledUid =>
                   u.loginCount = loginCountBefore + Cardinality(Calls)

-----------------------------------------------------------------------------
(* Claims about the free-slot finders *)

\* the end of the day of a finder: 23:00 in the daily pipeline, 22:00 in the
\* task-generation variant
DayEndOf(finder) == IF finder = "findFreeSlots" THEN taskDayEnd ELSE dayEnd

WithinDay(slot, finder) ==
    dayStart <= slot.start /\ slot.start < slot.end /\ slot.end <= DayEndOf(finder)

\* C2: every free slot emitted by findIntelligentFreeSlots, findFreeTimeSlots
\* (day 06:00-23:00) and AutoTaskGenerator.findFreeSlots (day 06:00-22:00)
\* satisfies dayStart <= start < end <= dayEnd, for every set of busy blocks,
\* those whose buffered start lies after dayEnd included.
C2_SlotsWithinDay ==
    fpc = "out" => \A i \in 1..Len(fsSlots) : WithinDay(fsSlots[i], fsFinder)

\* the meal block synthesized for a meal window, buffered by 15 minutes on
\* each side
IsMealBlockOf(block, meal) ==
    /\ block.type = "meal" /\ block.title = meal.name
    /\ block.start = meal.start - 15 /\ block.end = meal.end + 15

\* a commitment's original, unbuffered interval overlaps the meal window
OverlapsWindow(c, meal) == c.startTime < meal.end /\ c.endTime > meal.start

\* C13: addMealBreaks adds the meal block of a window (07:00-08:00,
\* 12:00-13:00, 18:00-19:00), buffered by exactly 15 minutes on each side, if
\* and only if no commitment's original interval overlaps the window; a
\* commitment whose buffered interval alone reaches into the window does not
\* suppress it.
C13_MealBlockIffNoConflict ==
    (fpc = "out" /\ fsFinder = "findIntelligentFreeSlots") =>
        \A m \in 1..Len(mealTimes) :
            LET meal == mealTimes[m]
                added == {i \in 1..Len(fsBlocks) : fsBlocks[i].type = "meal"
                                                   /\ fsBlocks[i].title = meal.name}
            IN  IF \E k \in 1..Len(fsInput) : OverlapsWindow(fsInput[k], meal)
                THEN added = {}
                ELSE /\ Cardinality(added) = 1
                     /\ \A i \in added : IsMealBlockOf(fsBlocks[i], meal)

\* the case of C13: a commitment ends at 11:50, its buffered block reaches
\* into the lunch window, the lunch block 11:45-13:15 is added all the same,
\* and another meal is suppressed by a commitment that overlaps its window
C13_Witness ==
    /\ fpc = "out" /\ fsFinder = "findIntelligentFreeSlots"
    /\ \E k \in 1..Len(fsInput) :
          /\ ~OverlapsWindow(fsInput[k], mealTimes[2])
          /\ BufferedBlock(fsInput[k]).end > mealTimes[2].start
          /\ BufferedBlock(fsInput[k]).start < mealTimes[2].end
    /\ \E i \in 1..Len(fsBlocks) :
          /\ IsMealBlockOf(fsBlocks[i], mealTimes[2])
          /\ fsBlocks[i].start = 11 * 60 + 45 /\ fsBlocks[i].end = 13 * 60 + 15
    /\ \E m \in 1..Len(mealTimes) :
          /\ \E k \in 1..Len(fsInput) : OverlapsWindow(fsInput[k], mealTimes[m])
          /\ \A i \in 1..Len(fsBlocks) : fsBlocks[i].type # "meal"
                                         \/ fsBlocks[i].title # mealTimes[m].name

\* the (start, end) pairs of a list of slots
StartEnd(slots) == [i \in 1..Len(slots) |-> <<slots[i].start, slots[i].end>>]

\* merge first, then the gaps: the blocks merged into disjoint intervals that
\* do not touch, then the gaps of 30 minutes or more from dayStart to the
\* first interval, between consecutive intervals, and from the last interval
\* to dayEnd
MergeThenGaps(blocks) ==
    LET M == MergeIntervals([i \in 1..Len(blocks) |->
                                [start |-> blocks[i].start, end |-> blocks[i].end]])
        CursorAt(i) == IF i = 1 THEN dayStart ELSE Max2(dayStart, M[i - 1].end)
        gaps == SelectSeq([i \in 1..Len(M) |-> <<CursorAt(i), M[i].start>>],
                          LAMBDA g : g[2] - g[1] >= 30)
        last == CursorAt(Len(M) + 1)
    IN  gaps \o (IF dayEnd - last >= 30 THEN <<<<last, dayEnd>>>> ELSE <<>>)

\* C19: findIntelligentFreeSlots, which walks the buffered blocks sorted by
\* start without merging them and advances the cursor to
\* max(cursor, block.end), emits exactly the (start, end) slots of merging
\* first and then taking the gaps >= 30 minutes, for every set of blocks,
\* nested and overlapping ones included; no emitted slot intersects a
\* buffered block.
C19_WalkEqualsMergeThenGaps ==
    (fpc = "out" /\ fsFinder = "findIntelligentFreeSlots") =>
        /\ StartEnd(fsSlots) = MergeThenGaps(fsBlocks)
        /\ \A i \in 1..Len(fsSlots) : \A k \in 1..Len(fsBlocks) :
               ~(fsSlots[i].start < fsBlocks[k].end
                 /\ fsBlocks[k].start < fsSlots[i].end)

\* the case of C19: a block nested in another and a block overlapping
\* another without being nested, with two free slots or more emitted
C19_Witness ==
    /\ fpc = "out" /\ fsFinder = "findIntelligentFreeSlots"
    /\ Len(fsSlots) >= 2
    /\ \E i, k \in 1..Len(fsBlocks) :
          /\ fsBlocks[i].start < fsBlocks[k].start
          /\ fsBlocks[k].end < fsBlocks[i].end
    /\ \E i, k \in 1..Len(fsBlocks) :
          /\ fsBlocks[i].start < fsBlocks[k].start
          /\ fsBlocks[k].start < fsBlocks[i].end
          /\ fsBlocks[i].end < fsBlocks[k].end

\* the buffer that the configuration table gives to the kind of a commitment:
\* a meal, work or study, a personal activity, any other kind
BufferOfKind(c) ==
    IF \E k \in {"an", "meal", "lunch", "dinner", "breakfast", "com"} :
           Includes(c.title, k)
    THEN BUFFER_CONFIG.meal
    ELSE IF \/ \E k \in {"work", "lam viec", "hoc", "study"} : Includes(c.title, k)
            \/ c.type \in {"work", "class", "study"}
    THEN BUFFER_CONFIG.work
    ELSE IF c.type = "personal"
    THEN BUFFER_CONFIG.personal
    ELSE BUFFER_CONFIG.default

\* C24: each commitment is buffered according to its activity kind through
\* the configuration table: meal 30 minutes before / 45 after, work and study
\* 15/15, personal 10/10, any other kind 15/15; and the buffered start and
\* end are clamped to [0, 1439].
C24_BufferedByKind ==
    fsFinder = "findIntelligentFreeSlots" =>
        \A i \in 1..Len(fsInput) :
            LET c == fsInput[i]
                buffer == BufferOfKind(c)
            IN  \E k \in 1..Len(fsBlocks) :
                    /\ fsBlocks[k].title = c.title
                    /\ fsBlocks[k].originalStart = c.startTime
                    /\ fsBlocks[k].originalEnd = c.endTime
                    /\ fsBlocks[k].start = Max2(0, c.startTime - buffer.before)
                    /\ fsBlocks[k].end = Min2(1439, c.endTime + buffer.after)

-----------------------------------------------------------------------------
(* Claims about the daily pipeline *)

Overlap(a, b) == a.startTime < b.endTime /\ b.startTime < a.endTime

\* C1: no two sessions of the plan returned by allocateIntelligentLearningTime
\* or allocateLearningTime overlap in time, be they of one goal or of two.
C1_NoOverlap ==
    dpc = "done" =>
        \A i, j \in 1..Len(generatedSchedule) :
            i < j => ~Overlap(generatedSchedule[i], generatedSchedule[j])

GoalOf(session) == learningGoals[session.learningGoalId]

\* C5: every session the daily pipeline emits has a duration d with
\* goal.sessionLength.min <= d <= goal.sessionLength.max (the goals of the
\* model have min <= max).
C5_DurationWithinSessionLength ==
    \A i \in 1..Len(generatedSchedule) :
        LET session == generatedSchedule[i]
        IN  /\ GoalOf(session).sessionLength.min <= session.duration
            /\ session.duration <= GoalOf(session).sessionLength.max

\* the case of C5 where both clamps act: a finished plan of the basic engine
\* with a session cut to max (the preferred length lies above max) and a
\* session of exactly min
C5_Witness ==
    /\ dpc = "done"
    /\ engine = "basic"
    /\ \E i, j \in 1..Len(generatedSchedule) :
          /\ generatedSchedule[i].duration
                 = GoalOf(generatedSchedule[i]).sessionLength.max
          /\ GoalOf(generatedSchedule[i]).sessionLength.preferred
                 > GoalOf(generatedSchedule[i]).sessionLength.max
          /\ generatedSchedule[j].duration
                 = GoalOf(generatedSchedule[j]).sessionLength.min

\* the minutes of the sessions emitted for the goal at place g
MinutesFor(g) ==
    SumSeq(Durations(SelectSeq(generatedSchedule,
                               LAMBDA session : session.learningGoalId = g)))

\* C6: in the template-driven allocator the durations of the sessions emitted
\* for a goal never total more than targetMinutes, and remainingMinutes never
\* becomes negative.
C6_WithinTarget ==
    engine = "enhanced" =>
        /\ remainingMinutes >= 0
        /\ \A g \in 1..Len(learningGoals) :
               MinutesFor(g) <= learningGoals[g].targetMinutes

\* the case of C6 where remainingMinutes cut the last session: the target is
\* met after two sessions or more, the last shorter than its template entry
C6_Witness ==
    /\ engine = "enhanced" /\ dpc = "while"
    /\ remainingMinutes = 0 /\ sessionIndex >= 2
    /\ MinutesFor(goalIdx) = goal.targetMinutes
    /\ generatedSchedule[Len(generatedSchedule)].duration
           < template[sessionIndex].duration

\* the minutes of the slots of duration >= goal.sessionLength.min
Capacity(slots, g) ==
    SumSeq(Durations(SelectSeq(slots,
                               LAMBDA slot : slot.duration >= g.sessionLength.min)))

\* the loop of the goal at goalIdx is over, in the template-driven allocator,
\* and the slots left to that goal held at least targetMinutes
GoalServedWithRoom ==
    /\ engine = "enhanced" /\ dpc = "for" /\ goalIdx >= 1
    /\ Capacity(slotsAtGoalStart, goal) >= goal.targetMinutes

NoRoom ==
    \A i \in 1..Len(availableSlots) :
        availableSlots[i].duration < goal.sessionLength.min

\* the plan holds a session of the goal at place g
Served(g) ==
    \E i \in 1..Len(generatedSchedule) : generatedSchedule[i].learningGoalId = g

\* C16: when no free slot has duration >= goal.sessionLength.min the allocator
\* emits no further session for that goal and goes on to the next goal: the
\* run ends only after every goal of the list was taken; when the day has no
\* free slot the returned plan is empty.
C16_NoRoomIsNotAnError ==
    /\ [](dpc = "done" => goalIdx = Len(learningGoals))
    /\ []((dpc = "done" /\ freeSlots = <<>>) => generatedSchedule = <<>>)
    /\ [][(dpc = "while" /\ NoRoom) =>
             /\ generatedSchedule' = generatedSchedule
             /\ dpc' = "for" /\ goalIdx' = goalIdx]_vars

\* the case of C16: a finished run over a day with free slots, none of them
\* long enough for the first goal, which gets no session, while the second
\* goal, of a smaller sessionLength.min, is served
C16_Witness ==
    /\ dpc = "done"
    /\ Len(learningGoals) = 2
    /\ freeSlots # <<>>
    /\ \A i \in 1..Len(freeSlots) :
          freeSlots[i].duration < learningGoals[1].sessionLength.min
    /\ ~Served(1)
    /\ Served(2)

\* the place in the working pool of the slot findBestSlotForGoal chose: the
\* slots of the pool start at different times
ChosenPlace == CHOOSE k \in 1..Len(availableSlots) :
                   availableSlots[k].start = bestSlot.start

\* the working pool with `used` minutes consumed at place k
Consumed(slots, k, used) ==
    IF slots[k].duration - used >= 30
    THEN [slots EXCEPT ![k].start = @ + used, ![k].startTime = @ + used,
                       ![k].duration = @ - used]
    ELSE Splice(slots, k)

\* C17: after the allocator places a session of `used` minutes in the slot
\* chosen by findBestSlotForGoal, availableSlots reflects the consumption
\* before the next selection: the entry is advanced and shortened by `used`
\* if slot.duration - used >= 30, and removed otherwise.
C17_PoolReflectsConsumption ==
    [][Len(generatedSchedule') > Len(generatedSchedule) =>
           availableSlots' = Consumed(availableSlots, ChosenPlace, sessionDuration)]_vars

\* C18: in the basic engine calculateOptimalSessionDuration never returns a
\* duration greater than remainingMinutes nor greater than the slot's
\* duration, so the sessions emitted for a goal never total more than the
\* goal's targetMinutes.
C18_BasicWithinTarget ==
    /\ [][(engine = "basic" /\ Len(generatedSchedule') > Len(generatedSchedule)) =>
             /\ sessionDuration <= remainingMinutes
             /\ sessionDuration <= bestSlot.duration]_vars
    /\ [](engine = "basic" =>
             \A g \in 1..Len(learningGoals) :
                 MinutesFor(g) <= learningGoals[g].targetMinutes)

\* the scenario of C11: the single commitment {work, 09:00-17:00} and the
\* single goal {react, 2 h, sessionLength {min 30, max 90, preferred 60}},
\* taken through the template-driven pipeline to its end
WorkdayReactScenario ==
    /\ dpc = "done" /\ engine = "enhanced"
    /\ fixedSchedule = <<[title |-> "work", type |-> "work",
                          startTime |-> 9 * 60, endTime |-> 17 * 60]>>
    /\ Len(learningGoals) = 1
    /\ learningGoals[1].subject = "react"
    /\ learningGoals[1].targetMinutes = 2 * 60
    /\ learningGoals[1].sessionLength = [min |-> 30, max |-> 90, preferred |-> 60]

\* C11: in that scenario the pipeline finds exactly two free slots (one ending
\* before work, one from about 17:15 to 23:00) and emits exactly two sessions
\* of 60 minutes each, both in the evening slot, with the topics
\* "Components & JSX" and then "State & Props".
C11_WorkdayReactPlan ==
    WorkdayReactScenario =>
        /\ Len(freeSlots) = 2
        /\ freeSlots[1].start = dayStart /\ freeSlots[1].end <= 9 * 60
        /\ freeSlots[2].start >= 17 * 60 /\ freeSlots[2].end = dayEnd
        /\ Len(generatedSchedule) = 2
        /\ \A i \in 1..2 :
              /\ generatedSchedule[i].duration = 60
              /\ generatedSchedule[i].startTime >= freeSlots[2].start
              /\ generatedSchedule[i].endTime <= freeSlots[2].end
        /\ generatedSchedule[1].sessionTopic = "Components & JSX"
        /\ generatedSchedule[2].sessionTopic = "State & Props"

-----------------------------------------------------------------------------
(* Claims about task generation *)

\* the minutes of a generated task, read back from its "HH:MM" strings
TaskFrom(task) == timeToMinutes(task.timeRange.start)
TaskTo(task) == timeToMinutes(task.timeRange.end)

\* two ranges of minutes share more than a boundary point
Intersects(from1, to1, from2, to2) == from1 < to2 /\ from2 < to1

IsStudy(task) == task.title = "Session"

\* C3: the tasks that allocateSimpleSessions generates for one weekday (study
\* blocks, micro breaks and macro breaks) have pairwise non-overlapping time
\* ranges.
C3_TasksDisjoint ==
    \A i, j \in 1..Len(generatedTasks) :
        i < j => ~Intersects(TaskFrom(generatedTasks[i]), TaskTo(generatedTasks[i]),
                             TaskFrom(generatedTasks[j]), TaskTo(generatedTasks[j]))

\* the case of C3: a finished day with a macro break, a study block right
\* after it in the same slot, and a micro break
C3_Witness ==
    /\ tpc = "done"
    /\ \E i, j \in 1..Len(generatedTasks) :
          /\ generatedTasks[i].title = "Nghi dai"
          /\ i + 1 <= Len(generatedTasks)
          /\ IsStudy(generatedTasks[i + 1])
          /\ TaskFrom(generatedTasks[i + 1])
                 = TaskTo(generatedTasks[i]) + prepBufferMin
          /\ generatedTasks[j].title = "Nghi giai lao"

\* a study block is taken together with its prep and wrap buffers
BlockFrom(task) ==
    IF IsStudy(task) THEN TaskFrom(task) - prepBufferMin ELSE TaskFrom(task)
BlockTo(task) ==
    IF IsStudy(task) THEN TaskTo(task) + wrapBufferMin ELSE TaskTo(task)

\* C4: every generated task, a study block taken with its 5-minute prep and
\* wrap buffers, lies inside one free slot of the weekday, and so intersects
\* neither a protected window nor the interval [start-15, end+15] of an
\* existing task of the weekday.
C4_InsideFreeSlot ==
    \A i \in 1..Len(generatedTasks) :
        LET task == generatedTasks[i]
        IN  /\ \E k \in 1..Len(taskFreeSlots) :
                  /\ taskFreeSlots[k].start <= BlockFrom(task)
                  /\ BlockTo(task) <= taskFreeSlots[k].end
            /\ \A w \in 1..Len(protectedWindows) :
                  ~Intersects(BlockFrom(task), BlockTo(task),
                              protectedWindows[w].start, protectedWindows[w].end)
            /\ \A t \in 1..Len(dayTasks) :
                  ~Intersects(BlockFrom(task), BlockTo(task),
                              timeToMinutes(dayTasks[t].timeRange.start) - 15,
                              timeToMinutes(dayTasks[t].timeRange.end) + 15)

\* the case of C4: a finished day where a study block with its prep buffer
\* starts right at the buffered end of an existing task
C4_Witness ==
    /\ tpc = "done"
    /\ \E i \in 1..Len(generatedTasks) :
          /\ IsStudy(generatedTasks[i])
          /\ \E t \in 1..Len(dayTasks) :
                BlockFrom(generatedTasks[i])
                    = timeToMinutes(dayTasks[t].timeRange.end) + 15

\* the tasks at i and j are two study blocks placed one after the other
ConsecutiveStudy(i, j) ==
    /\ i < j
    /\ IsStudy(generatedTasks[i]) /\ IsStudy(generatedTasks[j])
    /\ \A k \in (i + 1)..(j - 1) : ~IsStudy(generatedTasks[k])

StudyMinutes(task) == TaskTo(task) - TaskFrom(task)

\* C12: whenever two study sessions are placed one after the other and their
\* durations sum to more than maxContinuousTime (120), a macro break
\* ("Nghi dai") is emitted between the two study tasks.
C12_MacroBreakBetweenLongSessions ==
    \A i, j \in 1..Len(generatedTasks) :
        (/\ ConsecutiveStudy(i, j)
         /\ StudyMinutes(generatedTasks[i]) + StudyMinutes(generatedTasks[j])
                > maxContinuousTime)
        => \E k \in (i + 1)..(j - 1) : generatedTasks[k].title = "Nghi dai"

IsMacroBreak(task) == task.title = "Nghi dai"

\* an iteration of the loop over the slots: a slot is visited
SlotVisited == tpc = "slots" /\ slotIdx' = slotIdx + 1

\* C22: over the free slots of findFreeSlots (each >= 45 minutes) at most
\* macroBreakAfterSessions = 2 study tasks are emitted between two consecutive
\* macro breaks, and before the first one: once two sessions were placed since
\* the last macro break, the next slot visited receives a macro break before
\* any study task of that slot, and both counters are reset to 0 (they then
\* count only the session placed after the break, if one is placed).
C22_TwoSessionsPerMacroBreak ==
    /\ [](\A i, j, k \in 1..Len(generatedTasks) :
             (/\ i < j /\ j < k
              /\ IsStudy(generatedTasks[i]) /\ IsStudy(generatedTasks[j])
              /\ IsStudy(generatedTasks[k]))
             => \E m \in (i + 1)..(k - 1) : IsMacroBreak(generatedTasks[m]))
    /\ [](sessionsSinceMacro <= macroBreakAfterSessions)
    /\ [][(SlotVisited /\ sessionsSinceMacro >= macroBreakAfterSessions) =>
             /\ Len(generatedTasks') > Len(generatedTasks)
             /\ IsMacroBreak(generatedTasks'[Len(generatedTasks) + 1])
             /\ sessionsSinceMacro' = taskSessionIndex' - taskSessionIndex
             /\ continuousFocus' \in
                    {0, daySessions[taskSessionIndex + 1].duration}]_vars

\* the case of C22: a finished day where the slot visited after the second
\* study task received a macro break and no study task (the session did not
\* fit behind the break), and the third study task stands in a later slot
C22_Witness ==
    /\ tpc = "done"
    /\ \E m \in 1..(Len(generatedTasks) - 1) :
          /\ IsMacroBreak(generatedTasks[m])
          /\ Cardinality({i \in 1..m : IsStudy(generatedTasks[i])}) = 2
          /\ IsStudy(generatedTasks[m + 1])
          /\ TaskFrom(generatedTasks[m + 1])
                 > TaskTo(generatedTasks[m]) + prepBufferMin

\* the study tasks among the generated tasks, in the order generated
StudyTasks(tasks) == SelectSeq(tasks, IsStudy)

\* the place in sortedSlots of the slot a study task, with its buffers, lies in
\* (0 if there is none)
SlotOfStudy(task) ==
    IF \E k \in 1..Len(sortedSlots) :
           /\ sortedSlots[k].start <= BlockFrom(task)
           /\ BlockTo(task) <= sortedSlots[k].end
    THEN CHOOSE k \in 1..Len(sortedSlots) :
           /\ sortedSlots[k].start <= BlockFrom(task)
           /\ BlockTo(task) <= sortedSlots[k].end
    ELSE 0

\* C23: a slot that cannot hold the current session is skipped without
\* advancing the session index, and each slot receives at most one study
\* session: the study tasks emitted for a weekday carry the session orders
\* 1..k with no order skipped or repeated, and are placed at strictly
\* increasing start times in k distinct slots.
C23_OneSessionPerSlotInOrder ==
    /\ [](LET study == StudyTasks(generatedTasks)
          IN  /\ Len(study) = taskSessionIndex
              /\ \A n \in 1..Len(study) :
                    /\ study[n].order = n
                    /\ SlotOfStudy(study[n]) # 0
              /\ \A n, m \in 1..Len(study) :
                    n < m => /\ TaskFrom(study[n]) < TaskFrom(study[m])
                             /\ SlotOfStudy(study[n]) < SlotOfStudy(study[m]))
    /\ [][SlotVisited =>
             LET added == Len(StudyTasks(generatedTasks'))
                          - Len(StudyTasks(generatedTasks))
             IN  /\ added \in {0, 1}
                 /\ taskSessionIndex' = taskSessionIndex + added]_vars

\* the case of C23: a finished day of at least two study tasks where a slot
\* before the slot of the first study task and a slot between the slots of two
\* study tasks were skipped
C23_Witness ==
    /\ tpc = "done"
    /\ LET study == StudyTasks(generatedTasks)
       IN  /\ Len(study) >= 2
           /\ SlotOfStudy(study[1]) > 1
           /\ \E n \in 1..(Len(study) - 1) :
                 SlotOfStudy(study[n + 1]) > SlotOfStudy(study[n]) + 1

\* the minutes of study generated for the weekday
StudyTotal(tasks) ==
    SumSeq([n \in 1..Len(StudyTasks(tasks)) |-> StudyMinutes(StudyTasks(tasks)[n])])

\* C25: in the task-generation variant the durations of the study tasks
\* generated for a weekday total at most targetMinutes =
\* round(targetHoursPerDay * 60), for every target in the accepted range
\* (targets that are not multiples of 5, targets below
\* count * minSessionLength and a target of 0 included).
C25_StudyWithinTarget ==
    tpc = "done" => StudyTotal(generatedTasks) <= dayTargetMinutes

IsMicroBreak(task) == task.title = "Nghi giai lao"

\* a session is about to be considered: the loop of lines 1196-1321 is past
\* the break of line 1197 and has a slot left
SessionConsidered ==
    /\ tpc = "slots"
    /\ slotIdx <= Len(sortedSlots)
    /\ taskSessionIndex < Len(daySessions)

\* C30: in allocateSimpleSessions fed with the sessions of
\* buildBalancedSessions (needsBreak true for every session except the last),
\* continuousFocus is 0 every time a session is considered for placement: the
\* micro break a session requires always fits in the slot that passed the
\* totalRequired check (every study task of a session that needs a break is
\* followed at once by its micro break), focus time accumulates only after
\* the last session, and the macro break of the continuous-focus ceiling
\* ("Phuc hoi truoc buoi hoc tiep theo") is never generated.
C30_FocusZeroWhenConsidered ==
    /\ SessionConsidered => continuousFocus = 0
    /\ continuousFocus > 0 =>
           /\ taskSessionIndex = Len(daySessions)
           /\ continuousFocus = daySessions[Len(daySessions)].duration
    /\ \A i \in 1..Len(generatedTasks) :
           /\ generatedTasks[i].note # "Phuc hoi truoc buoi hoc tiep theo"
           /\ (IsStudy(generatedTasks[i])
               /\ daySessions[generatedTasks[i].order].needsBreak)
              => /\ i < Len(generatedTasks)
                 /\ IsMicroBreak(generatedTasks[i + 1])
                 /\ TaskFrom(generatedTasks[i + 1])
                        = TaskTo(generatedTasks[i]) + wrapBufferMin

\* the case of C30: a session is considered after a session that needed a
\* break was placed in a slot with no minute to spare (its micro break ends
\* where the slot ends)
C30_Witness ==
    /\ SessionConsidered
    /\ taskSessionIndex >= 1
    /\ \E i \in 1..(Len(generatedTasks) - 1) :
          /\ IsStudy(generatedTasks[i])
          /\ IsMicroBreak(generatedTasks[i + 1])
          /\ \E k \in 1..Len(sortedSlots) :
                 /\ sortedSlots[k].start = BlockFrom(generatedTasks[i])
                 /\ sortedSlots[k].end = TaskTo(generatedTasks[i + 1])

-----------------------------------------------------------------------------
(* Claims about buildBalancedSessions *)

AllDurations(sessions, P(_)) == \A i \in 1..Len(sessions) : P(sessions[i].duration)

InSessionBounds(d) ==
    d % 5 = 0 /\ minSessionLength <= d /\ d <= maxSessionLength

\* C8: with count >= 2 (minSessionLength 30, maxSessionLength 90) and a
\* targetMinutes that is a multiple of 5 with count*min <= targetMinutes
\* <= count*max, buildBalancedSessions returns exactly count sessions whose
\* durations sum to targetMinutes.
C8_BalancedSumExact ==
    (/\ bpc = "ret" /\ bCount >= 2 /\ bTarget % 5 = 0
     /\ bCount * minSessionLength <= bTarget
     /\ bTarget <= bCount * maxSessionLength)
    => /\ Len(bSessions) = bCount
       /\ SumSeq(Durations(bSessions)) = bTarget

\* the case of C8 with a remainder to hand out: 155 minutes in 3 sessions
C8_Witness ==
    /\ bpc = "ret" /\ bCount = 3 /\ bTarget = 155
    /\ Durations(bSessions) = <<55, 50, 50>>

\* C9: with count >= 2 and targetMinutes > 0, whatever the target, every
\* duration is a multiple of 5 within [minSessionLength, maxSessionLength],
\* after the clamp (before the reconciliation loop), during the loop and in
\* what is returned.
C9_DurationsInBounds ==
    (bpc \in {"loop", "ret"} /\ bCount >= 2 /\ bTarget > 0)
    => /\ AllDurations(bClamped, InSessionBounds)
       /\ AllDurations(bSessions, InSessionBounds)

\* the case of C9 where the target is no multiple of 5 and the loop has
\* changed durations until its iteration cap
C9_Witness ==
    /\ bpc = "ret" /\ bCount >= 2 /\ bTarget % 5 # 0
    /\ bIdx = Len(bSessions) * 10 /\ bSessions # bClamped

\* C20: buildBalancedSessions terminates: its reconciliation loop runs at
\* most 10 * count iterations and stops even when the sum can never equal
\* targetMinutes.
C20_BalancedTerminates ==
    /\ [](bIdx <= 10 * bCount)
    /\ <>(bpc = "ret")

\* the case of C20: the loop ran its 10 * count iterations and the call
\* returned with a sum that is not targetMinutes
C20_Witness ==
    /\ bpc = "ret"
    /\ bCount >= 2
    /\ bIdx = 10 * bCount
    /\ bSum # bTarget

Distance(sum, targetMinutes) ==
    IF sum >= targetMinutes THEN sum - targetMinutes ELSE targetMinutes - sum

\* no session can move by `step` within [minSessionLength, maxSessionLength]
NoSessionCanMove(sessions, step) ==
    \A i \in 1..Len(sessions) :
        \/ sessions[i].duration + step < minSessionLength
        \/ sessions[i].duration + step > maxSessionLength

\* C21: the reconciliation loop only moves the sum toward the target: for
\* every targetMinutes > 0 and count >= 2 the distance |sum - targetMinutes|
\* after the loop is no greater than that of the clamped durations before the
\* loop, and the loop stops changing durations once the sum matches or no
\* session can move by 5 minutes within [min, max].
C21_LoopMovesTowardTarget ==
    /\ []((bpc = "ret" /\ bTarget > 0 /\ bCount >= 2) =>
             Distance(SumSeq(Durations(bSessions)), bTarget)
                 <= Distance(SumSeq(Durations(bClamped)), bTarget))
    /\ [][(/\ bpc = "loop"
           /\ (bSum = bTarget \/ NoSessionCanMove(bSessions, bStep)))
          => bSessions' = bSessions]_vars

-----------------------------------------------------------------------------
(* Claims about the merge *)

\* sorted by start, pairwise disjoint and not touching
Apart(m) ==
    \A i, j \in 1..Len(m) :
        i < j => m[i].start < m[j].start /\ m[i].end < m[j].start

\* C10: merging is idempotent, merge(merge(X)) = merge(X), and the merged
\* intervals are sorted, pairwise disjoint and non-touching.
C10_MergeIdempotent ==
    /\ mpc \in {"once", "twice"} => Apart(merged)
    /\ mpc = "twice" => remerged = merged

\* the case of C10 where the merge folds intervals: three intervals, out of
\* order, that overlap or touch, become one
C10_Witness ==
    /\ mpc = "twice" /\ Len(busyIntervals) = 3 /\ Len(merged) = 1
    /\ busyIntervals[1].start > busyIntervals[2].start
    /\ \E i \in 1..3 : busyIntervals[i].end = busyIntervals[1].start

====
